---- MODULE Spec2Model ----
(***************************************************************************)
(* Model of the Kopek trading bot: the position ledger (trade_manager.py), *)
(* the strategy engine (strategy.py) and the spot-price monitor            *)
(* (binance_ws.py).                                                        *)
(*                                                                         *)
(* Units.  Python floats are modelled by exact integers on a fixed grid:   *)
(*   prices of a share        in cents               (0.97  -> 97)         *)
(*   share counts             in hundredths          (10.31 -> 1031)       *)
(*   USDC amounts             in 1/10000 USDC        (10.0  -> 100000)     *)
(*   spot prices              in whole dollars                             *)
(*   1-minute trend           in 1/10000             (0.002 -> 20)         *)
(* An Optional value is a sequence: <<>> is None, <<v>> is the value v.    *)
(***************************************************************************)
EXTENDS Integers, Sequences, FiniteSets, TLC

VARIABLES
    trades,          \* TradeManager.trades: insertion-ordered dict, as a sequence of Trade
    balance,         \* TradeManager.balance
    counter,         \* TradeManager._trade_counter
    disk,            \* content of TRADES_FILE: <<>> (no file) or <<document>>
    pending_outcomes,\* Strategy._pending_outcomes
    loops,           \* the four loop tasks of main.run: name -> "running" | "stopped"
    loop_event,      \* the last exception caught by a loop, or report sent
    prices,          \* BinancePriceMonitor.prices: asset -> Optional price
    price_at_buy,    \* BinancePriceMonitor.price_at_buy: asset -> Optional price
    now,             \* time.time()
    resolution,      \* the venue: market -> "pending" | label of the winning token
    api,             \* last direct call of a ledger method by a client, and its result
    probe,           \* inputs and result of a stand-alone evaluation of a decision function
    main,            \* the main thread: where it is, and what preflight found
    ordered          \* the venue: markets for which the program has called buy_yes

vars == <<trades, balance, counter, disk, pending_outcomes, loops, loop_event,
          prices, price_at_buy, now, resolution, api, probe, main, ordered>>

(***************************************************************************)
(* Program constants (config.py and literals of strategy.py).              *)
(***************************************************************************)
BUY_THRESHOLD == 97
ENTRY_SECONDS_5M == 120
ENTRY_SECONDS_15M == 300
TRADE_SIZE_USDC == 100000
CUTLOSS_PM_PRICE == 80
CUTLOSS_BINANCE_PCT == 3          \* 0.003, as a number of thousandths
PctScale == 1000
MinSecondsLeft == 5               \* strategy.py: seconds_left <= 5
MaxSpread == 5                    \* strategy.py: spread > 0.05
TrendTolerance == 20              \* strategy.py: 0.002, in 1/10000
MonitorGrace == 30                \* strategy.py: close_timestamp + 30
FullPrice == 100                  \* 1.0 per share
MinSellPrice == 1                 \* strategy.py: max(sell_price, 0.01)
IdWidth == 4                      \* trade_manager.py: f"T{n:04d}"

(***************************************************************************)
(* Bounds of the model.                                                    *)
(***************************************************************************)
MaxTrades == 2      \* cap on the trade counter
MaxTime == 150      \* the clock stops here
MaxBalance == 310000 \* a client stops crediting the ledger above this balance
MaxCycles == 3       \* outcome cycles of a stand-alone run of the outcome loop

None == <<>>
Some(v) == <<v>>
Val(o) == o[1]

(***************************************************************************)
(* The market catalog served by the exchange (MarketInfo objects).         *)
(***************************************************************************)
Markets == {"m1", "m2"}
Assets == {"BTC"}

Market(m) ==
    IF m = "m1"
    THEN [condition_id |-> "m1", asset |-> "BTC", direction |-> "UP",
          market_type |-> "5m", yes_token_id |-> "m1-yes", close_time |-> 120]
    ELSE [condition_id |-> "m2", asset |-> "BTC", direction |-> "DOWN",
          market_type |-> "15m", yes_token_id |-> "m2-yes", close_time |-> 120]

\* MarketInfo.seconds_to_close
Max(a, b) == IF a >= b THEN a ELSE b
seconds_to_close(m, t) == Max(0, Market(m).close_time - t)

\* MarketInfo.is_expired
is_expired(m, t) == t >= Market(m).close_time

(***************************************************************************)
(* Values the collaborators can return.                                    *)
(***************************************************************************)
SpotLevels == {997, 1000}
Trends == {-21, 0, 21}
StartingBalance == 300000

\* the upper-cased outcome label of the token a resolved market pays: "" for a
\* token whose "outcome" key is missing
OutcomeLabels == {"YES", "NO", ""}

(***************************************************************************)
(* Trade ids: f"T{counter:04d}".                                           *)
(***************************************************************************)
RECURSIVE Digits(_)
Digits(n) == IF n < 10 THEN <<n>> ELSE Append(Digits(n \div 10), n % 10)

RECURSIVE ZeroPad(_, _)
ZeroPad(ds, width) == IF Len(ds) >= width THEN ds ELSE ZeroPad(<<0>> \o ds, width)

FormatId(n) == <<"T">> \o ZeroPad(Digits(n), IdWidth)

(***************************************************************************)
(* The ledger as a value, so that a handler can chain several ledger       *)
(* calls inside one step.                                                  *)
(***************************************************************************)
Ledger == [trades |-> trades, balance |-> balance, counter |-> counter]

\* dict lookup: the positions of the key in the insertion-ordered dict
IndexOf(ts, id) == {i \in 1..Len(ts) : ts[i].trade_id = id}
HasKey(ts, id) == IndexOf(ts, id) # {}
Lookup(ts, id) == ts[CHOOSE i \in IndexOf(ts, id) : TRUE]

\* dict assignment self.trades[key] = t : overwrite in place, or append
DictPut(ts, t) ==
    IF HasKey(ts, t.trade_id)
    THEN [i \in 1..Len(ts) |-> IF ts[i].trade_id = t.trade_id THEN t ELSE ts[i]]
    ELSE Append(ts, t)

(***************************************************************************)
(* The persisted document: JSON values, as json.dump writes them and        *)
(* json.load returns them.                                                  *)
(***************************************************************************)
JNull == [kind |-> "null"]
JNumber(n) == [kind |-> "number", value |-> n]
JString(str) == [kind |-> "string", value |-> str]

\* an Optional[float] field: None is written as null
JOptional(o) == IF o = None THEN JNull ELSE JNumber(Val(o))
FromJOptional(j) == IF j.kind = "null" THEN None ELSE Some(j.value)

\* dataclasses.asdict(t), as json.dump writes it
asdict(t) ==
    [trade_id |-> JString(t.trade_id),
     condition_id |-> JString(t.condition_id),
     asset |-> JString(t.asset),
     direction |-> JString(t.direction),
     market_type |-> JString(t.market_type),
     buy_price |-> JNumber(t.buy_price),
     shares |-> JNumber(t.shares),
     size_usdc |-> JNumber(t.size_usdc),
     yes_token_id |-> JString(t.yes_token_id),
     close_timestamp |-> JNumber(t.close_timestamp),
     binance_entry_price |-> JNumber(t.binance_entry_price),
     status |-> JString(t.status),
     sell_price |-> JOptional(t.sell_price),
     pnl_usdc |-> JOptional(t.pnl_usdc),
     resolved_at |-> JOptional(t.resolved_at),
     cutloss_reason |-> IF t.cutloss_reason = None THEN JNull
                        ELSE JString(Val(t.cutloss_reason))]

\* variant: the reason of a cut is not read back
from_dict_drops_reason(raw) ==
    [trade_id |-> raw.trade_id.value,
     condition_id |-> raw.condition_id.value,
     asset |-> raw.asset.value,
     direction |-> raw.direction.value,
     market_type |-> raw.market_type.value,
     buy_price |-> raw.buy_price.value,
     shares |-> raw.shares.value,
     size_usdc |-> raw.size_usdc.value,
     yes_token_id |-> raw.yes_token_id.value,
     close_timestamp |-> raw.close_timestamp.value,
     binance_entry_price |-> raw.binance_entry_price.value,
     status |-> raw.status.value,
     sell_price |-> FromJOptional(raw.sell_price),
     pnl_usdc |-> FromJOptional(raw.pnl_usdc),
     resolved_at |-> FromJOptional(raw.resolved_at),
     cutloss_reason |-> None]

\* Trade(**raw) on an entry of the list json.load returns
from_dict(raw) ==
    [trade_id |-> raw.trade_id.value,
     condition_id |-> raw.condition_id.value,
     asset |-> raw.asset.value,
     direction |-> raw.direction.value,
     market_type |-> raw.market_type.value,
     buy_price |-> raw.buy_price.value,
     shares |-> raw.shares.value,
     size_usdc |-> raw.size_usdc.value,
     yes_token_id |-> raw.yes_token_id.value,
     close_timestamp |-> raw.close_timestamp.value,
     binance_entry_price |-> raw.binance_entry_price.value,
     status |-> raw.status.value,
     sell_price |-> FromJOptional(raw.sell_price),
     pnl_usdc |-> FromJOptional(raw.pnl_usdc),
     resolved_at |-> FromJOptional(raw.resolved_at),
     cutloss_reason |-> FromJOptional(raw.cutloss_reason)]

\* variant: the counter is left out of the document
Document_omits_counter(L) ==
    [balance |-> JNumber(L.balance),
     counter |-> JNumber(0),
     trades |-> [i \in 1..Len(L.trades) |-> asdict(L.trades[i])]]

\* TradeManager._save: the document written to TRADES_FILE
Document(L) ==
    [balance |-> JNumber(L.balance),
     counter |-> JNumber(L.counter),
     trades |-> [i \in 1..Len(L.trades) |-> asdict(L.trades[i])]]

\* a file that json.load cannot parse: truncated by open(.., "w") and not, or
\* not completely, written
Torn == [torn |-> TRUE]
IsTorn(document) == "torn" \in DOMAIN Val(document)

\* the content of TRADES_FILE after _save: written; or left as it was, when
\* open() raised; or torn, when the write raised after the truncation
SaveOutcomes == {"written", "unchanged", "torn"}
save(L, file, outcome) ==
    IF outcome = "written" THEN Some(Document(L))
    ELSE IF outcome = "unchanged" THEN file
    ELSE Some(Torn)

\* buy_yes: shares = round(size_usdc / price, 2)
SharesFor(size, price) == (2 * size + price) \div (2 * price)

\* TradeManager.open_trade
open_trade(L, m, buy_price, shares, size_usdc, binance_entry_price, t) ==
    LET id == FormatId(L.counter + 1)
        trade == [trade_id |-> id,
                  condition_id |-> Market(m).condition_id,
                  asset |-> Market(m).asset,
                  direction |-> Market(m).direction,
                  market_type |-> Market(m).market_type,
                  buy_price |-> buy_price,
                  shares |-> shares,
                  size_usdc |-> size_usdc,
                  yes_token_id |-> Market(m).yes_token_id,
                  close_timestamp |-> Market(m).close_time,
                  binance_entry_price |-> binance_entry_price,
                  status |-> "open",
                  sell_price |-> None,
                  pnl_usdc |-> None,
                  resolved_at |-> None,
                  cutloss_reason |-> None]
    IN [trades |-> DictPut(L.trades, trade),
        balance |-> L.balance - size_usdc,
        counter |-> L.counter + 1]

\* variant: the balance is credited by the profit instead of the payout
resolve_win_credits_pnl(L, id, t) ==
    LET old == Lookup(L.trades, id)
        new == [old EXCEPT !.sell_price = Some(FullPrice),
                           !.pnl_usdc = Some(old.shares * (FullPrice - old.buy_price)),
                           !.status = "win",
                           !.resolved_at = Some(t)]
    IN [L EXCEPT !.trades = DictPut(L.trades, new),
                 !.balance = L.balance + old.shares * (FullPrice - old.buy_price)]

\* TradeManager.resolve_win (the id is a key of the dict)
resolve_win(L, id, t) ==
    LET old == Lookup(L.trades, id)
        new == [old EXCEPT !.sell_price = Some(FullPrice),
                           !.pnl_usdc = Some(old.shares * (FullPrice - old.buy_price)),
                           !.status = "win",
                           !.resolved_at = Some(t)]
    IN [L EXCEPT !.trades = DictPut(L.trades, new),
                 !.balance = L.balance + old.shares * FullPrice]

\* variant: a loss pays nothing, so no sell price is recorded
resolve_loss_no_sell_price(L, id, t) ==
    LET old == Lookup(L.trades, id)
        new == [old EXCEPT !.pnl_usdc = Some(0 - old.size_usdc),
                           !.status = "loss",
                           !.resolved_at = Some(t)]
    IN [L EXCEPT !.trades = DictPut(L.trades, new)]

\* TradeManager.resolve_loss (the id is a key of the dict)
resolve_loss(L, id, t) ==
    LET old == Lookup(L.trades, id)
        new == [old EXCEPT !.sell_price = Some(0),
                           !.pnl_usdc = Some(0 - old.size_usdc),
                           !.status = "loss",
                           !.resolved_at = Some(t)]
    IN [L EXCEPT !.trades = DictPut(L.trades, new)]

\* variant: the proceeds of the sale are recorded as the profit
resolve_cutloss_pnl_is_payout(L, id, sell_price, reason, t) ==
    LET old == Lookup(L.trades, id)
        payout == old.shares * sell_price
        new == [old EXCEPT !.sell_price = Some(sell_price),
                           !.pnl_usdc = Some(payout),
                           !.status = "cutloss",
                           !.resolved_at = Some(t),
                           !.cutloss_reason = Some(reason)]
    IN [L EXCEPT !.trades = DictPut(L.trades, new),
                 !.balance = L.balance + payout]

\* variant: a position that was cut is dropped from the dict
resolve_cutloss_prunes(L, id, sell_price, reason, t) ==
    LET old == Lookup(L.trades, id)
        payout == old.shares * sell_price
    IN [L EXCEPT !.trades = SelectSeq(L.trades, LAMBDA x : x.trade_id # id),
                 !.balance = L.balance + payout]

\* TradeManager.resolve_cutloss (the id is a key of the dict)
resolve_cutloss(L, id, sell_price, reason, t) ==
    LET old == Lookup(L.trades, id)
        payout == old.shares * sell_price
        new == [old EXCEPT !.sell_price = Some(sell_price),
                           !.pnl_usdc = Some(payout - old.size_usdc),
                           !.status = "cutloss",
                           !.resolved_at = Some(t),
                           !.cutloss_reason = Some(reason)]
    IN [L EXCEPT !.trades = DictPut(L.trades, new),
                 !.balance = L.balance + payout]

\* variant: every position is returned, whatever its status
get_open_trades_any_status(ts) == 1..Len(ts)

\* TradeManager.get_open_trades
get_open_trades(ts) == {i \in 1..Len(ts) : ts[i].status = "open"}

\* variant: only OPEN positions count, as in get_open_by_condition
already_traded_open_only(ts, cid) ==
    \E i \in 1..Len(ts) : ts[i].condition_id = cid /\ ts[i].status = "open"

\* TradeManager.already_traded
already_traded(ts, cid) == \E i \in 1..Len(ts) : ts[i].condition_id = cid

\* TradeManager.set_balance
set_balance(L, b) == [L EXCEPT !.balance = b]

\* sum(t.pnl_usdc or 0 for t in closed), over the first n positions
RECURSIVE SumClosedPnl(_, _)
SumClosedPnl(ts, n) ==
    IF n = 0 THEN 0
    ELSE SumClosedPnl(ts, n - 1)
         + (IF ts[n].status = "open" \/ ts[n].pnl_usdc = None
            THEN 0 ELSE Val(ts[n].pnl_usdc))

\* TradeManager.get_stats; the win rate as the fraction wins / closed
get_stats(L) ==
    LET closed == {i \in 1..Len(L.trades) : L.trades[i].status # "open"}
        wins == {i \in closed : L.trades[i].status = "win"}
    IN [total_trades |-> Len(L.trades),
        open |-> Cardinality(get_open_trades(L.trades)),
        wins |-> Cardinality(wins),
        losses |-> Cardinality({i \in closed : L.trades[i].status \in {"loss", "cutloss"}}),
        win_rate |-> IF closed # {}
                     THEN [num |-> Cardinality(wins), den |-> Cardinality(closed)]
                     ELSE [num |-> 0, den |-> 1],
        total_pnl |-> SumClosedPnl(L.trades, Len(L.trades)),
        balance |-> L.balance]

\* _load's loop: for raw in data["trades"]: self.trades[t.trade_id] = Trade(**raw)
RECURSIVE load_trades(_, _)
load_trades(raws, n) ==
    IF n = 0 THEN <<>> ELSE DictPut(load_trades(raws, n - 1), from_dict(raws[n]))

\* variant: the counter is not restored from the document
load_without_counter(document, starting_balance) ==
    IF document = None
    THEN [trades |-> <<>>, balance |-> starting_balance, counter |-> 0]
    ELSE IF IsTorn(document)
    THEN [trades |-> <<>>, balance |-> starting_balance, counter |-> 0]
    ELSE [trades |-> load_trades(Val(document).trades, Len(Val(document).trades)),
          balance |-> Val(document).balance.value,
          counter |-> 0]

\* TradeManager.__init__ followed by _load: a missing file, or one json.load
\* cannot parse, leaves the ledger as __init__ made it
load(document, starting_balance) ==
    IF document = None
    THEN [trades |-> <<>>, balance |-> starting_balance, counter |-> 0]
    ELSE IF IsTorn(document)
    THEN [trades |-> <<>>, balance |-> starting_balance, counter |-> 0]
    ELSE [trades |-> load_trades(Val(document).trades, Len(Val(document).trades)),
          balance |-> Val(document).balance.value,
          counter |-> Val(document).counter.value]

\* the ledger variables after a mutating call, _save included
Store(L, outcome) ==
    /\ trades' = L.trades
    /\ balance' = L.balance
    /\ counter' = L.counter
    /\ disk' = save(L, disk, outcome)

\* a mutating call whose write succeeds
Commit(L) == Store(L, "written")

\* the main thread between two cycles, inside asyncio's event loop; "failed" is
\* the set of collaborators that did not answer preflight
Idle == [pc |-> "idle", at |-> "none", failed |-> {}, locals |-> <<>>]

NoCall == [op |-> "none", id |-> <<>>, raised |-> FALSE, seq |-> 0, saved |-> TRUE]
NoProbe == [fn |-> "none"]

(***************************************************************************)
(* The loop tasks: while True: try: <cycle> except Exception: <log>;       *)
(* then await asyncio.sleep(<interval>).                                   *)
(***************************************************************************)
LoopNames == {"scan", "monitor", "outcome", "report"}
AllRunning == [l \in LoopNames |-> "running"]
NoEvent == [loop |-> "none", kind |-> "none"]

\* variant: status_reporter_loop has no handler around its cycle
on_cycle_exception_report_unguarded(l) ==
    IF l = "report" THEN "stopped" ELSE "running"

\* what an exception raised inside a cycle leaves of the loop: each of the
\* four loops catches Exception, logs, and goes on to its sleep
on_cycle_exception(l) == "running"

(***************************************************************************)
(* The exchange order book of a YES token, as one HTTP fetch returns it.   *)
(***************************************************************************)
Books ==
    { [bid |-> None,     ask |-> None],
      [bid |-> Some(95), ask |-> Some(97)],
      [bid |-> Some(95), ask |-> Some(100)],
      [bid |-> None,     ask |-> Some(79)] }

\* PolymarketClient.get_best_ask
get_best_ask(book) == book.ask

\* PolymarketClient.get_orderbook_depth
get_orderbook_depth(book) ==
    [bids |-> book.bid,
     asks |-> book.ask,
     spread |-> IF book.ask # None /\ book.bid # None
                THEN Some(Val(book.ask) - Val(book.bid))
                ELSE None]

(***************************************************************************)
(* The spot-price monitor.                                                 *)
(***************************************************************************)
\* BinancePriceMonitor.get_price
get_price(ps, asset) == ps[asset]

\* BinancePriceMonitor.set_reference_price
set_reference_price(ps, refs, asset) ==
    IF ps[asset] # None THEN [refs EXCEPT ![asset] = ps[asset]] ELSE refs

\* BinancePriceMonitor.clear_reference_price
clear_reference_price(refs, asset) == [refs EXCEPT ![asset] = None]

\* BinancePriceMonitor.get_change_pct: the exact fraction (current - ref) / ref
get_change_pct(current, ref) ==
    IF current = None \/ ref = None THEN None
    ELSE IF Val(ref) = 0 THEN None
    ELSE Some([num |-> Val(current) - Val(ref), den |-> Val(ref)])

\* the readings get_1min_trend can return: None until the history is long
\* enough or when no current price exists, otherwise a relative change
TrendReadings(ps, asset) ==
    IF ps[asset] = None THEN {None} ELSE {None} \cup {Some(t) : t \in Trends}

(***************************************************************************)
(* Strategy: entry evaluation.                                             *)
(***************************************************************************)
\* variant: the two entry windows exchanged
get_entry_window_swapped(market_type) ==
    IF market_type = "5m" THEN ENTRY_SECONDS_15M ELSE ENTRY_SECONDS_5M

\* Strategy._get_entry_window
get_entry_window(market_type) ==
    IF market_type = "5m" THEN ENTRY_SECONDS_5M ELSE ENTRY_SECONDS_15M

\* variant: the order book is consulted before the ledger
should_enter_book_first(seconds_left, market_type, direction, traded, ask, spread, trend, spot) ==
    IF seconds_left > get_entry_window(market_type)
    THEN [enter |-> FALSE, reason |-> "too_early"]
    ELSE IF seconds_left <= MinSecondsLeft
    THEN [enter |-> FALSE, reason |-> "too_late"]
    ELSE IF ask = None
    THEN [enter |-> FALSE, reason |-> "no_book"]
    ELSE IF Val(ask) < BUY_THRESHOLD
    THEN [enter |-> FALSE, reason |-> "price_low"]
    ELSE IF Val(ask) >= FullPrice
    THEN [enter |-> FALSE, reason |-> "price_at_one"]
    ELSE IF traded
    THEN [enter |-> FALSE, reason |-> "already_traded"]
    ELSE IF spread # None /\ Val(spread) # 0 /\ Val(spread) > MaxSpread
    THEN [enter |-> FALSE, reason |-> "spread_wide"]
    ELSE IF trend # None /\ direction = "UP" /\ Val(trend) < 0 - TrendTolerance
    THEN [enter |-> FALSE, reason |-> "dropping"]
    ELSE IF trend # None /\ direction = "DOWN" /\ Val(trend) > TrendTolerance
    THEN [enter |-> FALSE, reason |-> "rising"]
    ELSE IF spot = None
    THEN [enter |-> FALSE, reason |-> "no_spot"]
    ELSE [enter |-> TRUE, reason |-> "entry_ok"]

\* Strategy._should_enter: the collaborator calls it has made when it returns,
\* in the order of the calls
should_enter_reads(seconds_left, market_type, direction, traded, ask, spread, trend, spot) ==
    IF seconds_left > get_entry_window(market_type) \/ seconds_left <= MinSecondsLeft
    THEN <<>>
    ELSE IF traded
    THEN <<>>
    ELSE IF ask = None \/ Val(ask) < BUY_THRESHOLD \/ Val(ask) >= FullPrice
    THEN <<"get_best_ask">>
    ELSE IF spread # None /\ Val(spread) # 0 /\ Val(spread) > MaxSpread
    THEN <<"get_best_ask", "get_orderbook_depth">>
    ELSE IF trend # None /\ direction = "UP" /\ Val(trend) < 0 - TrendTolerance
    THEN <<"get_best_ask", "get_orderbook_depth", "get_1min_trend">>
    ELSE IF trend # None /\ direction = "DOWN" /\ Val(trend) > TrendTolerance
    THEN <<"get_best_ask", "get_orderbook_depth", "get_1min_trend">>
    ELSE <<"get_best_ask", "get_orderbook_depth", "get_1min_trend", "get_price">>

\* Strategy._should_enter, on the values its reads return
should_enter(seconds_left, market_type, direction, traded, ask, spread, trend, spot) ==
    IF seconds_left > get_entry_window(market_type)
    THEN [enter |-> FALSE, reason |-> "too_early"]
    ELSE IF seconds_left <= MinSecondsLeft
    THEN [enter |-> FALSE, reason |-> "too_late"]
    ELSE IF traded
    THEN [enter |-> FALSE, reason |-> "already_traded"]
    ELSE IF ask = None
    THEN [enter |-> FALSE, reason |-> "no_book"]
    ELSE IF Val(ask) < BUY_THRESHOLD
    THEN [enter |-> FALSE, reason |-> "price_low"]
    ELSE IF Val(ask) >= FullPrice
    THEN [enter |-> FALSE, reason |-> "price_at_one"]
    ELSE IF spread # None /\ Val(spread) # 0 /\ Val(spread) > MaxSpread
    THEN [enter |-> FALSE, reason |-> "spread_wide"]
    ELSE IF trend # None /\ direction = "UP" /\ Val(trend) < 0 - TrendTolerance
    THEN [enter |-> FALSE, reason |-> "dropping"]
    ELSE IF trend # None /\ direction = "DOWN" /\ Val(trend) > TrendTolerance
    THEN [enter |-> FALSE, reason |-> "rising"]
    ELSE IF spot = None
    THEN [enter |-> FALSE, reason |-> "no_spot"]
    ELSE [enter |-> TRUE, reason |-> "entry_ok"]

(***************************************************************************)
(* Strategy: cut-loss check.                                               *)
(***************************************************************************)
\* variant: the feed-side test on the magnitude of the move only, as in
\* BinancePriceMonitor._check_cutloss
check_cutloss_any_direction(direction, ask, change_pct) ==
    LET magnitude == IF change_pct = None THEN 0
                     ELSE IF Val(change_pct).num < 0 THEN 0 - Val(change_pct).num
                     ELSE Val(change_pct).num
    IN IF ask # None /\ Val(ask) < CUTLOSS_PM_PRICE
       THEN Some("pm_price")
       ELSE IF change_pct # None
               /\ magnitude * PctScale >= CUTLOSS_BINANCE_PCT * Val(change_pct).den
       THEN IF direction = "UP" THEN Some("binance_drop") ELSE Some("binance_rise")
       ELSE None

\* Strategy._check_cutloss, on the values its reads return
check_cutloss(direction, ask, change_pct) ==
    IF ask # None /\ Val(ask) < CUTLOSS_PM_PRICE
    THEN Some("pm_price")
    ELSE IF change_pct # None /\ direction = "UP"
            /\ Val(change_pct).num * PctScale <= (0 - CUTLOSS_BINANCE_PCT) * Val(change_pct).den
    THEN Some("binance_drop")
    ELSE IF change_pct # None /\ direction = "DOWN"
            /\ Val(change_pct).num * PctScale >= CUTLOSS_BINANCE_PCT * Val(change_pct).den
    THEN Some("binance_rise")
    ELSE None

(***************************************************************************)
(* Initial state: main.run has built the ledger from an absent TRADES_FILE *)
(* with the balance of preflight, called set_balance (which saves), and    *)
(* built the Strategy; the price monitor has no tick yet.                  *)
(***************************************************************************)
ProgramInit ==
    /\ trades = <<>>
    /\ balance = StartingBalance
    /\ counter = 0
    /\ disk = Some(Document([trades |-> <<>>, balance |-> StartingBalance, counter |-> 0]))
    /\ pending_outcomes = {}
    /\ loops = AllRunning
    /\ loop_event = NoEvent
    /\ prices = [a \in Assets |-> None]
    /\ price_at_buy = [a \in Assets |-> None]
    /\ now = 0
    /\ resolution = [m \in Markets |-> "pending"]
    /\ api = NoCall
    /\ main = Idle
    /\ ordered = {}

Init ==
    /\ ProgramInit
    /\ probe = NoProbe

ledgerVars == <<trades, balance, counter, disk>>
strategyVars == <<pending_outcomes, loops, loop_event>>
feedVars == <<prices, price_at_buy>>

(***************************************************************************)
(* Environment.                                                            *)
(***************************************************************************)
\* The instants at which a time comparison of the program changes its answer:
\* the clock moves from one of them to the next.
Instants ==
    {t \in 0..MaxTime : \E m \in Markets :
        \/ t = Market(m).close_time - get_entry_window(Market(m).market_type)
        \/ t = Market(m).close_time - MinSecondsLeft
        \/ t = Market(m).close_time
        \/ t = Market(m).close_time + MonitorGrace}

Tick ==
    /\ \E t \in Instants :
        /\ t > now
        /\ \A u \in Instants : u > now => t <= u
        /\ now' = t
    /\ UNCHANGED <<ledgerVars, strategyVars, feedVars, resolution, api, probe, main, ordered>>

\* BinancePriceMonitor._process_tick (no cut-loss callback is ever registered)
PriceTick(asset, p) ==
    /\ main.pc = "idle"
    /\ prices' = [prices EXCEPT ![asset] = Some(p)]
    /\ UNCHANGED <<ledgerVars, strategyVars, price_at_buy, now, resolution, api, probe, main, ordered>>

\* the venue resolves a market
VenueResolve(m, outcome) ==
    /\ resolution[m] = "pending"
    /\ resolution' = [resolution EXCEPT ![m] = outcome]
    /\ UNCHANGED <<ledgerVars, strategyVars, feedVars, now, api, probe, main, ordered>>

(***************************************************************************)
(* Strategy.market_scanner_loop.                                           *)
(***************************************************************************)
\* variant: the reference price is pinned and the market marked pending before
\* the order is placed, so that a failed order leaves both behind
execute_buy_pins_before_order(m, ask, order_ok) ==
    IF ask = None \/ Val(ask) < BUY_THRESHOLD
    THEN UNCHANGED <<ledgerVars, pending_outcomes, feedVars, ordered>>
    ELSE IF ~order_ok
    THEN /\ ordered' = ordered \cup {Market(m).condition_id}
         /\ price_at_buy' = set_reference_price(prices, price_at_buy, Market(m).asset)
         /\ pending_outcomes' = pending_outcomes \cup {Market(m).condition_id}
         /\ UNCHANGED <<ledgerVars, prices>>
    ELSE LET spot == get_price(prices, Market(m).asset)
             binance_price == IF spot = None THEN 0 ELSE Val(spot)
         IN /\ counter < MaxTrades
            /\ ordered' = ordered \cup {Market(m).condition_id}
            /\ Commit(open_trade(Ledger, m, Val(ask),
                                 SharesFor(TRADE_SIZE_USDC, Val(ask)),
                                 TRADE_SIZE_USDC, binance_price, now))
            /\ price_at_buy' = set_reference_price(prices, price_at_buy, Market(m).asset)
            /\ pending_outcomes' = pending_outcomes \cup {Market(m).condition_id}
            /\ UNCHANGED prices

\* Strategy._execute_buy after a positive verdict
execute_buy(m, ask, order_ok) ==
    IF ask = None \/ Val(ask) < BUY_THRESHOLD
    THEN UNCHANGED <<ledgerVars, pending_outcomes, feedVars, ordered>>
    ELSE IF ~order_ok
    THEN /\ ordered' = ordered \cup {Market(m).condition_id}
         /\ UNCHANGED <<ledgerVars, pending_outcomes, feedVars>>
    ELSE LET spot == get_price(prices, Market(m).asset)
             binance_price == IF spot = None THEN 0 ELSE Val(spot)
         IN /\ counter < MaxTrades
            /\ ordered' = ordered \cup {Market(m).condition_id}
            /\ Commit(open_trade(Ledger, m, Val(ask),
                                 SharesFor(TRADE_SIZE_USDC, Val(ask)),
                                 TRADE_SIZE_USDC, binance_price, now))
            /\ price_at_buy' = set_reference_price(prices, price_at_buy, Market(m).asset)
            /\ pending_outcomes' = pending_outcomes \cup {Market(m).condition_id}
            /\ UNCHANGED prices

\* one iteration of the scanner's loop over the tracked markets
ScanMarket(m) ==
    /\ main.pc = "idle"
    /\ loops["scan"] = "running"
    /\ seconds_to_close(m, now) > 0
    /\ IF is_expired(m, now)
       THEN UNCHANGED <<ledgerVars, pending_outcomes, feedVars, ordered>>
       ELSE /\ IF already_traded(trades, Market(m).condition_id)
               THEN UNCHANGED <<ledgerVars, pending_outcomes, feedVars, ordered>>
               ELSE \E book1 \in Books, book2 \in Books,
                       trend \in TrendReadings(prices, Market(m).asset) :
                      LET verdict == should_enter(
                              seconds_to_close(m, now), Market(m).market_type,
                              Market(m).direction,
                              already_traded(trades, Market(m).condition_id),
                              get_best_ask(book1), get_orderbook_depth(book2).spread,
                              trend, get_price(prices, Market(m).asset))
                      IN IF verdict.enter
                         THEN \E book3 \in Books, order_ok \in BOOLEAN :
                                 execute_buy(m, get_best_ask(book3), order_ok)
                         ELSE UNCHANGED <<ledgerVars, pending_outcomes, feedVars, ordered>>
    /\ UNCHANGED <<loops, loop_event, now, resolution, api, probe, main>>

(***************************************************************************)
(* Strategy.position_monitor_loop.                                         *)
(***************************************************************************)
\* PolymarketClient.sell_yes: the order type posted for an order_type argument
sell_yes_order_type(order_type) == IF order_type = "FOK" THEN "FOK" ELSE "GTC"

\* variant: the sale is recorded at the price of the order also when the
\* order raised
execute_cutloss_keeps_price(i, reason, book, sell_ok) ==
    LET trade == trades[i]
        bids == get_orderbook_depth(book).bids
        best == IF bids # None THEN Val(bids) ELSE MinSellPrice
        sell_price == Max(best, MinSellPrice)
    IN /\ Commit(resolve_cutloss(Ledger, trade.trade_id, sell_price, reason, now))
       /\ price_at_buy' = clear_reference_price(price_at_buy, trade.asset)
       /\ pending_outcomes' = pending_outcomes \ {trade.condition_id}

\* variant: a sell order that raised leaves the position OPEN, to be tried
\* again by the next monitor cycle
execute_cutloss_retries_failed_sell(i, reason, book, sell_ok) ==
    LET trade == trades[i]
        bids == get_orderbook_depth(book).bids
        best == IF bids # None THEN Val(bids) ELSE MinSellPrice
        sell_price == Max(best, MinSellPrice)
    IN IF sell_ok
       THEN /\ Commit(resolve_cutloss(Ledger, trade.trade_id, sell_price, reason, now))
            /\ price_at_buy' = clear_reference_price(price_at_buy, trade.asset)
            /\ pending_outcomes' = pending_outcomes \ {trade.condition_id}
       ELSE UNCHANGED <<ledgerVars, pending_outcomes, price_at_buy>>

\* Strategy._execute_cutloss
execute_cutloss(i, reason, book, sell_ok) ==
    LET trade == trades[i]
        bids == get_orderbook_depth(book).bids
        best == IF bids # None THEN Val(bids) ELSE MinSellPrice
        sell_price == IF sell_ok THEN Max(best, MinSellPrice) ELSE 0
    IN /\ Commit(resolve_cutloss(Ledger, trade.trade_id, sell_price, reason, now))
       /\ price_at_buy' = clear_reference_price(price_at_buy, trade.asset)
       /\ pending_outcomes' = pending_outcomes \ {trade.condition_id}

\* variant: no end of the monitoring window
monitor_skips_never(close_timestamp, t) == FALSE

\* position_monitor_loop: if time.time() >= trade.close_timestamp + 30: continue
monitor_skips(close_timestamp, t) == t >= close_timestamp + MonitorGrace

\* one iteration of the monitor's loop over the open trades
MonitorTrade(i) ==
    /\ main.pc = "idle"
    /\ loops["monitor"] = "running"
    /\ i \in get_open_trades(trades)
    /\ IF monitor_skips(trades[i].close_timestamp, now)
       THEN UNCHANGED <<ledgerVars, pending_outcomes, price_at_buy>>
       ELSE \E book1 \in Books :
              LET reason == check_cutloss(
                      trades[i].direction, get_best_ask(book1),
                      get_change_pct(prices[trades[i].asset], price_at_buy[trades[i].asset]))
              IN IF reason # None
                 THEN \E book2 \in Books, sell_ok \in BOOLEAN :
                         execute_cutloss(i, Val(reason), book2, sell_ok)
                 ELSE UNCHANGED <<ledgerVars, pending_outcomes, price_at_buy>>
    /\ UNCHANGED <<loops, loop_event, prices, now, resolution, api, probe, main, ordered>>

(***************************************************************************)
(* Strategy.outcome_checker_loop.                                          *)
(***************************************************************************)
\* PolymarketClient.check_market_resolved: None while pending or on a failed fetch
OutcomeReadings(m) ==
    IF resolution[m] = "pending" THEN {None} ELSE {None, Some(resolution[m])}

\* one iteration of Strategy._check_outcomes over the open trades
OutcomeTrade(i) ==
    /\ main.pc = "idle"
    /\ loops["outcome"] = "running"
    /\ i \in get_open_trades(trades)
    /\ IF trades[i].condition_id \notin pending_outcomes
       THEN UNCHANGED <<ledgerVars, pending_outcomes, price_at_buy>>
       ELSE IF now < trades[i].close_timestamp
       THEN UNCHANGED <<ledgerVars, pending_outcomes, price_at_buy>>
       ELSE \E outcome \in OutcomeReadings(trades[i].condition_id) :
              IF outcome = None
              THEN UNCHANGED <<ledgerVars, pending_outcomes, price_at_buy>>
              ELSE /\ price_at_buy' = clear_reference_price(price_at_buy, trades[i].asset)
                   /\ IF Val(outcome) = "YES"
                      THEN Commit(resolve_win(Ledger, trades[i].trade_id, now))
                      ELSE Commit(resolve_loss(Ledger, trades[i].trade_id, now))
                   /\ pending_outcomes' = pending_outcomes \ {trades[i].condition_id}
    /\ UNCHANGED <<loops, loop_event, prices, now, resolution, api, probe, main, ordered>>

(***************************************************************************)
(* Strategy.status_reporter_loop, and exceptions inside the cycles.        *)
(***************************************************************************)
\* variant: the report cycle drops the resolved positions from the ledger
StatusReport_prunes_closed ==
    /\ main.pc = "idle"
    /\ loops["report"] = "running"
    /\ loop_event' = [loop |-> "report", kind |-> "sent"]
    /\ Commit([Ledger EXCEPT !.trades = SelectSeq(trades, LAMBDA x : x.status = "open")])
    /\ UNCHANGED <<pending_outcomes, loops, feedVars, now, resolution,
                   api, probe, main, ordered>>

\* one cycle of the reporter: get_stats, then notify_status
StatusReport ==
    /\ main.pc = "idle"
    /\ loops["report"] = "running"
    /\ loop_event' = [loop |-> "report", kind |-> "sent"]
    /\ UNCHANGED <<ledgerVars, pending_outcomes, loops, feedVars, now, resolution,
                   api, probe, main, ordered>>

\* a collaborator call or a ledger call raises inside a cycle of loop l, before
\* the cycle has changed anything: the rest of the cycle is skipped.  An
\* exception that leaves the loop's coroutine ends asyncio.gather in main.run,
\* and with it every task.
CycleRaises(l) ==
    /\ main.pc = "idle"
    /\ loops[l] = "running"
    /\ loops' = IF on_cycle_exception(l) = "running"
                THEN loops
                ELSE [k \in LoopNames |-> "stopped"]
    /\ loop_event' = [loop |-> l, kind |-> "caught"]
    /\ UNCHANGED <<ledgerVars, pending_outcomes, feedVars, now, resolution, api, probe, main, ordered>>

(***************************************************************************)
(* Process restart: main.run builds everything anew from TRADES_FILE.      *)
(***************************************************************************)
Restart(injected) ==
    /\ Commit(set_balance(load(disk, injected), injected))
    /\ pending_outcomes' = {}
    /\ loops' = AllRunning
    /\ loop_event' = NoEvent
    /\ prices' = [a \in Assets |-> None]
    /\ price_at_buy' = [a \in Assets |-> None]
    /\ UNCHANGED <<now, resolution, api, probe, main, ordered>>

(***************************************************************************)
(* Direct calls of the ledger's methods by a client.                       *)
(***************************************************************************)
TradeIds == {FormatId(n) : n \in 1..MaxTrades}

\* the record of a call: seq flips at every call, so that two equal calls in a
\* row are still two calls
Called(op, id, raised) ==
    [op |-> op, id |-> id, raised |-> raised, seq |-> 1 - api.seq, saved |-> TRUE]
ApiBuyPrices == {97}
ApiEntryPrices == {1000}
ApiSellPrices == {0, 95}
DiskSellPrices == {95}

ApiOpenTrade(m, price, entry) ==
    /\ counter < MaxTrades
    /\ Commit(open_trade(Ledger, m, price, SharesFor(TRADE_SIZE_USDC, price),
                         TRADE_SIZE_USDC, entry, now))
    /\ api' = Called("open_trade", FormatId(counter + 1), FALSE)
    /\ UNCHANGED <<strategyVars, feedVars, now, resolution, probe, main, ordered>>

ApiResolveWin(id) ==
    /\ balance <= MaxBalance
    /\ IF HasKey(trades, id)
       THEN /\ Commit(resolve_win(Ledger, id, now))
            /\ api' = Called("resolve_win", id, FALSE)
       ELSE /\ UNCHANGED ledgerVars
            /\ api' = Called("resolve_win", id, TRUE)
    /\ UNCHANGED <<strategyVars, feedVars, now, resolution, probe, main, ordered>>

ApiResolveLoss(id) ==
    /\ IF HasKey(trades, id)
       THEN /\ Commit(resolve_loss(Ledger, id, now))
            /\ api' = Called("resolve_loss", id, FALSE)
       ELSE /\ UNCHANGED ledgerVars
            /\ api' = Called("resolve_loss", id, TRUE)
    /\ UNCHANGED <<strategyVars, feedVars, now, resolution, probe, main, ordered>>

ApiResolveCutloss(id, sell_price) ==
    /\ balance <= MaxBalance
    /\ IF HasKey(trades, id)
       THEN /\ Commit(resolve_cutloss(Ledger, id, sell_price, "client", now))
            /\ api' = Called("resolve_cutloss", id, FALSE)
       ELSE /\ UNCHANGED ledgerVars
            /\ api' = Called("resolve_cutloss", id, TRUE)
    /\ UNCHANGED <<strategyVars, feedVars, now, resolution, probe, main, ordered>>

(***************************************************************************)
(* The same calls on a disk whose writes can fail: _save logs the error    *)
(* and the call returns normally.                                          *)
(***************************************************************************)
CalledSave(op, id, raised, outcome) ==
    [Called(op, id, raised) EXCEPT !.saved = (outcome = "written")]

SaveOpenTrade(m, price, entry, outcome) ==
    /\ counter < MaxTrades
    /\ Store(open_trade(Ledger, m, price, SharesFor(TRADE_SIZE_USDC, price),
                        TRADE_SIZE_USDC, entry, now), outcome)
    /\ api' = CalledSave("open_trade", FormatId(counter + 1), FALSE, outcome)
    /\ UNCHANGED <<strategyVars, feedVars, now, resolution, probe, main, ordered>>

SaveResolveWin(id, outcome) ==
    /\ balance <= MaxBalance
    /\ IF HasKey(trades, id)
       THEN /\ Store(resolve_win(Ledger, id, now), outcome)
            /\ api' = CalledSave("resolve_win", id, FALSE, outcome)
       ELSE /\ UNCHANGED ledgerVars
            /\ api' = Called("resolve_win", id, TRUE)
    /\ UNCHANGED <<strategyVars, feedVars, now, resolution, probe, main, ordered>>

SaveResolveLoss(id, outcome) ==
    /\ IF HasKey(trades, id)
       THEN /\ Store(resolve_loss(Ledger, id, now), outcome)
            /\ api' = CalledSave("resolve_loss", id, FALSE, outcome)
       ELSE /\ UNCHANGED ledgerVars
            /\ api' = Called("resolve_loss", id, TRUE)
    /\ UNCHANGED <<strategyVars, feedVars, now, resolution, probe, main, ordered>>

SaveResolveCutloss(id, sell_price, outcome) ==
    /\ balance <= MaxBalance
    /\ IF HasKey(trades, id)
       THEN /\ Store(resolve_cutloss(Ledger, id, sell_price, "client", now), outcome)
            /\ api' = CalledSave("resolve_cutloss", id, FALSE, outcome)
       ELSE /\ UNCHANGED ledgerVars
            /\ api' = Called("resolve_cutloss", id, TRUE)
    /\ UNCHANGED <<strategyVars, feedVars, now, resolution, probe, main, ordered>>

\* main.run after a restart: TradeManager(balance), then set_balance(balance)
SaveRestart(injected, outcome) ==
    /\ Store(set_balance(load(disk, injected), injected), outcome)
    /\ api' = CalledSave("set_balance", <<>>, FALSE, outcome)
    /\ pending_outcomes' = {}
    /\ loops' = AllRunning
    /\ loop_event' = NoEvent
    /\ prices' = [a \in Assets |-> None]
    /\ price_at_buy' = [a \in Assets |-> None]
    /\ UNCHANGED <<now, resolution, probe, main, ordered>>

(***************************************************************************)
(* Specifications.                                                         *)
(***************************************************************************)
Environment ==
    \/ Tick
    \/ \E a \in Assets, p \in SpotLevels : PriceTick(a, p)
    \/ \E m \in Markets, o \in OutcomeLabels : VenueResolve(m, o)

\* the program: the three trading loops against their collaborators
Next ==
    \/ Environment
    \/ \E m \in Markets : ScanMarket(m)
    \/ \E i \in 1..MaxTrades : MonitorTrade(i)
    \/ \E i \in 1..MaxTrades : OutcomeTrade(i)

Spec == Init /\ [][Next]_vars

\* the program with crashes: the process may be restarted at any moment
CrashNext ==
    \/ Next
    \/ Restart(StartingBalance)

CrashSpec == Init /\ [][CrashNext]_vars

\* the scanner and the outcome loop with crashes, under the scheduling of
\* outcome_checker_loop: the loop runs a cycle every OUTCOME_POLL_INTERVAL for
\* ever, and a resolution fetch that keeps being retried eventually succeeds
RecoveryNext ==
    \/ Environment
    \/ \E m \in Markets : ScanMarket(m)
    \/ \E i \in 1..MaxTrades : OutcomeTrade(i)
    \/ Restart(StartingBalance)

RecoverySpec ==
    /\ Init
    /\ [][RecoveryNext]_vars
    /\ \A i \in 1..MaxTrades : WF_vars(OutcomeTrade(i))

\* the three trading loops on one market, with crashes, under the scheduling
\* of outcome_checker_loop: a cycle every OUTCOME_POLL_INTERVAL for ever, and a
\* resolution fetch that keeps being retried eventually succeeds
ResolutionNext ==
    \/ Tick
    \/ \E a \in Assets, p \in SpotLevels : PriceTick(a, p)
    \/ \E o \in OutcomeLabels : VenueResolve("m1", o)
    \/ ScanMarket("m1")
    \/ \E i \in 1..MaxTrades : MonitorTrade(i)
    \/ \E i \in 1..MaxTrades : OutcomeTrade(i)
    \/ Restart(StartingBalance)

ResolutionSpec ==
    /\ Init
    /\ [][ResolutionNext]_vars
    /\ \A i \in 1..MaxTrades : WF_vars(OutcomeTrade(i))

\* the three trading loops on one market, started by main.run on an absent
\* TRADES_FILE with the balance the wallet holds, which may be below the
\* size of one trade
WalletBalances == {0, 50000, TRADE_SIZE_USDC, StartingBalance}

WalletInit ==
    /\ trades = <<>>
    /\ balance \in WalletBalances
    /\ counter = 0
    /\ disk = Some(Document([trades |-> <<>>, balance |-> balance, counter |-> 0]))
    /\ pending_outcomes = {}
    /\ loops = AllRunning
    /\ loop_event = NoEvent
    /\ prices = [a \in Assets |-> None]
    /\ price_at_buy = [a \in Assets |-> None]
    /\ now = 0
    /\ resolution = [m \in Markets |-> "pending"]
    /\ api = NoCall
    /\ probe = NoProbe
    /\ main = Idle
    /\ ordered = {}

WalletNext ==
    \/ Tick
    \/ \E a \in Assets, p \in SpotLevels : PriceTick(a, p)
    \/ \E o \in OutcomeLabels : VenueResolve("m1", o)
    \/ ScanMarket("m1")
    \/ \E i \in 1..MaxTrades : MonitorTrade(i)
    \/ \E i \in 1..MaxTrades : OutcomeTrade(i)

WalletSpec == WalletInit /\ [][WalletNext]_vars

\* the four loops on one market, with exceptions inside their cycles
LoopNext ==
    \/ Tick
    \/ \E a \in Assets, p \in SpotLevels : PriceTick(a, p)
    \/ \E o \in OutcomeLabels : VenueResolve("m1", o)
    \/ ScanMarket("m1")
    \/ \E i \in 1..MaxTrades : MonitorTrade(i)
    \/ \E i \in 1..MaxTrades : OutcomeTrade(i)
    \/ StatusReport
    \/ \E l \in LoopNames : CycleRaises(l)

\* status_reporter_loop's sleep returns, so its cycle runs again and again
LoopSpec ==
    /\ Init
    /\ [][LoopNext]_vars
    /\ WF_vars(StatusReport)

\* the ledger alone, driven by a client that may call any method with any id
ApiNext ==
    \/ \E m \in Markets, price \in ApiBuyPrices, entry \in ApiEntryPrices :
          ApiOpenTrade(m, price, entry)
    \/ \E id \in TradeIds : ApiResolveWin(id)
    \/ \E id \in TradeIds : ApiResolveLoss(id)
    \/ \E id \in TradeIds, sell_price \in ApiSellPrices : ApiResolveCutloss(id, sell_price)
    \/ Restart(StartingBalance)

LedgerSpec == Init /\ [][ApiNext]_vars

\* the ledger alone on a disk whose writes can fail
DiskNext ==
    \/ \E m \in Markets, price \in ApiBuyPrices, entry \in ApiEntryPrices,
          outcome \in SaveOutcomes : SaveOpenTrade(m, price, entry, outcome)
    \/ \E id \in TradeIds, outcome \in SaveOutcomes : SaveResolveWin(id, outcome)
    \/ \E id \in TradeIds, outcome \in SaveOutcomes : SaveResolveLoss(id, outcome)
    \/ \E id \in TradeIds, sell_price \in DiskSellPrices, outcome \in SaveOutcomes :
          SaveResolveCutloss(id, sell_price, outcome)
    \/ \E outcome \in SaveOutcomes : SaveRestart(StartingBalance, outcome)

DiskSpec == Init /\ [][DiskNext]_vars

\* the scanner loop, with restarts, next to a client that opens positions
\* directly and records losses
OpenNext ==
    \/ Tick
    \/ \E a \in Assets, p \in SpotLevels : PriceTick(a, p)
    \/ \E m \in Markets : ScanMarket(m)
    \/ \E m \in Markets, price \in ApiBuyPrices, entry \in ApiEntryPrices :
          ApiOpenTrade(m, price, entry)
    \/ \E id \in TradeIds : ApiResolveLoss(id)
    \/ Restart(StartingBalance)

OpenSpec == Init /\ [][OpenNext]_vars

(***************************************************************************)
(* Stand-alone evaluation of the entry evaluator: Init draws the values    *)
(* its reads return, Evaluate applies Strategy._should_enter to them.      *)
(***************************************************************************)
ProbeSeconds == {0, 5, 6, 120, 121, 300, 301}
ProbeAsks == {None, Some(96), Some(97), Some(99), Some(100)}
ProbeSpreads == {None, Some(-1), Some(0), Some(5), Some(6)}
ProbeTrends == {None, Some(-21), Some(-20), Some(0), Some(20), Some(21)}
ProbeSpots == {None, Some(1000)}

EntryInit ==
    /\ ProgramInit
    /\ probe \in [fn : {"should_enter"},
                  seconds_left : ProbeSeconds,
                  market_type : {"5m", "15m"},
                  direction : {"UP", "DOWN"},
                  traded : BOOLEAN,
                  ask : ProbeAsks,
                  spread : ProbeSpreads,
                  trend : ProbeTrends,
                  spot : ProbeSpots,
                  done : {FALSE},
                  result : {[enter |-> FALSE, reason |-> "none"]},
                  reads : {<<>>}]

\* variant: a positive verdict already records the market as awaiting its
\* outcome
Evaluate_marks_pending ==
    /\ probe.fn = "should_enter"
    /\ ~probe.done
    /\ probe' = [probe EXCEPT
                   !.done = TRUE,
                   !.result = should_enter(probe.seconds_left, probe.market_type,
                                           probe.direction, probe.traded, probe.ask,
                                           probe.spread, probe.trend, probe.spot),
                   !.reads = should_enter_reads(probe.seconds_left, probe.market_type,
                                                probe.direction, probe.traded, probe.ask,
                                                probe.spread, probe.trend, probe.spot)]
    /\ pending_outcomes' = IF probe'.result.enter
                           THEN pending_outcomes \cup {"m1"}
                           ELSE pending_outcomes
    /\ UNCHANGED <<ledgerVars, loops, loop_event, feedVars, now, resolution, api,
                   main, ordered>>

Evaluate ==
    /\ probe.fn = "should_enter"
    /\ ~probe.done
    /\ probe' = [probe EXCEPT
                   !.done = TRUE,
                   !.result = should_enter(probe.seconds_left, probe.market_type,
                                           probe.direction, probe.traded, probe.ask,
                                           probe.spread, probe.trend, probe.spot),
                   !.reads = should_enter_reads(probe.seconds_left, probe.market_type,
                                                probe.direction, probe.traded, probe.ask,
                                                probe.spread, probe.trend, probe.spot)]
    /\ UNCHANGED <<ledgerVars, strategyVars, feedVars, now, resolution, api, main, ordered>>

EntrySpec == EntryInit /\ [][Evaluate]_vars

(***************************************************************************)
(* Stand-alone evaluation of the cut-loss check: Init draws the order book *)
(* of the YES token, the current and the pinned spot price; CheckPosition  *)
(* applies Strategy._check_cutloss to what its reads return.               *)
(***************************************************************************)
ProbeBooks ==
    { [bid |-> None,     ask |-> None],
      [bid |-> Some(95), ask |-> Some(97)],
      [bid |-> Some(79), ask |-> Some(80)],
      [bid |-> Some(75), ask |-> Some(85)],
      [bid |-> Some(75), ask |-> Some(79)],
      [bid |-> None,     ask |-> Some(79)],
      [bid |-> Some(75), ask |-> None] }
ProbeCurrent == {None, Some(996), Some(997), Some(998), Some(1000), Some(1002), Some(1003), Some(1004)}
ProbePinned == {None, Some(1000)}

CutlossInit ==
    /\ ProgramInit
    /\ probe \in [fn : {"check_cutloss"},
                  direction : {"UP", "DOWN"},
                  book : ProbeBooks,
                  current : ProbeCurrent,
                  pinned : ProbePinned,
                  done : {FALSE},
                  result : {None}]

CheckPosition ==
    /\ probe.fn = "check_cutloss"
    /\ ~probe.done
    /\ probe' = [probe EXCEPT
                   !.done = TRUE,
                   !.result = check_cutloss(probe.direction, get_best_ask(probe.book),
                                            get_change_pct(probe.current, probe.pinned))]
    /\ UNCHANGED <<ledgerVars, strategyVars, feedVars, now, resolution, api, main, ordered>>

CutlossSpec == CutlossInit /\ [][CheckPosition]_vars

(***************************************************************************)
(* Stand-alone run of the cut-loss exit: Init holds one OPEN position and  *)
(* draws the order book of its YES token and whether the sell order is     *)
(* accepted; CutPosition applies Strategy._execute_cutloss.                *)
(***************************************************************************)
\* a bid of 0 stands for a bid below one cent
ExitBooks ==
    { [bid |-> None,     ask |-> None],
      [bid |-> None,     ask |-> Some(79)],
      [bid |-> Some(0),  ask |-> Some(79)],
      [bid |-> Some(1),  ask |-> Some(79)],
      [bid |-> Some(50), ask |-> Some(79)],
      [bid |-> Some(95), ask |-> Some(97)] }
ExitBuyPrices == {97, 98, 99}

ExitInit ==
    /\ \E m \in Markets, price \in ExitBuyPrices :
          LET L == open_trade([trades |-> <<>>, balance |-> StartingBalance, counter |-> 0],
                              m, price, SharesFor(TRADE_SIZE_USDC, price),
                              TRADE_SIZE_USDC, 1000, 0)
          IN /\ trades = L.trades
             /\ balance = L.balance
             /\ counter = L.counter
             /\ disk = Some(Document(L))
             /\ pending_outcomes = {Market(m).condition_id}
    /\ loops = AllRunning
    /\ loop_event = NoEvent
    /\ prices = [a \in Assets |-> Some(1000)]
    /\ price_at_buy = [a \in Assets |-> Some(1000)]
    /\ now = 0
    /\ resolution = [m \in Markets |-> "pending"]
    /\ api = NoCall
    /\ main = Idle
    /\ ordered = {}
    /\ probe \in [fn : {"execute_cutloss"},
                  book : ExitBooks,
                  sell_ok : BOOLEAN,
                  order_type : {"none"},
                  done : {FALSE}]

CutPosition ==
    /\ probe.fn = "execute_cutloss"
    /\ ~probe.done
    /\ execute_cutloss(1, "pm_price", probe.book, probe.sell_ok)
    /\ probe' = [probe EXCEPT !.done = TRUE,
                              !.order_type = sell_yes_order_type("FOK")]
    /\ UNCHANGED <<loops, loop_event, prices, now, resolution, api, main, ordered>>

ExitSpec == ExitInit /\ [][CutPosition]_vars

\* the exit inside the running program: the monitor loop calls
\* _execute_cutloss on a position of get_open_trades, and the monitor and
\* outcome loops go on with their cycles while the clock advances and the
\* venue resolves the markets
CutOpenPosition ==
    /\ 1 \in get_open_trades(trades)
    /\ CutPosition

ExitLoopsNext ==
    \/ CutOpenPosition
    \/ Tick
    \/ \E m \in Markets, o \in OutcomeLabels : VenueResolve(m, o)
    \/ \E i \in 1..MaxTrades : MonitorTrade(i)
    \/ \E i \in 1..MaxTrades : OutcomeTrade(i)

ExitLoopsSpec == ExitInit /\ [][ExitLoopsNext]_vars

(***************************************************************************)
(* Stand-alone run of the outcome loop, one whole cycle of _check_outcomes *)
(* per step: Init holds two OPEN positions, the clock and the venue move,   *)
(* CheckOutcomes draws what each resolution fetch returns and how the       *)
(* delivery of each notification ends.                                      *)
(***************************************************************************)
\* the ways requests.post can end in telegram_notif._send: resp.ok; a response
\* that is not ok; an exception (timeout, connection error)
Deliveries == {"ok", "refused", "exception"}

\* variant: an exception of requests.post is not caught
send_raises(delivery) ==
    IF delivery = "ok" THEN "sent"
    ELSE IF delivery = "refused" THEN "failed"
    ELSE "raised"

\* telegram_notif._send: True ("sent") or False ("failed"); it never raises
send(delivery) == IF delivery = "ok" THEN "sent" ELSE "failed"

\* the locals of a cycle of _check_outcomes, with the ledger and the pins as
\* the cycle has left them so far
CycleStart ==
    [L |-> Ledger, pins |-> price_at_buy, resolved_ids |-> {}, polled |-> {},
     sends |-> 0, raised |-> FALSE]

\* variant: a pending market is handled by the else branch, as a loss
check_outcome_pending_is_loss(S, i, outcome, delivery, pending, t) ==
    LET trade == S.L.trades[i]
    IN IF S.raised THEN S
       ELSE IF trade.status # "open" THEN S
       ELSE IF trade.condition_id \notin pending THEN S
       ELSE IF t < trade.close_timestamp THEN S
       ELSE [L |-> IF outcome # None /\ Val(outcome) = "YES"
                   THEN resolve_win(S.L, trade.trade_id, t)
                   ELSE resolve_loss(S.L, trade.trade_id, t),
             pins |-> clear_reference_price(S.pins, trade.asset),
             resolved_ids |-> S.resolved_ids \cup {trade.condition_id},
             polled |-> S.polled \cup {i},
             sends |-> S.sends + 1,
             raised |-> send(delivery) = "raised"]

\* the body of the for loop of _check_outcomes for the i-th position; once a
\* call has raised, the rest of the loop is not run
check_outcome(S, i, outcome, delivery, pending, t) ==
    LET trade == S.L.trades[i]
    IN IF S.raised THEN S
       ELSE IF trade.status # "open" THEN S
       ELSE IF trade.condition_id \notin pending THEN S
       ELSE IF t < trade.close_timestamp THEN S
       ELSE IF outcome = None THEN [S EXCEPT !.polled = S.polled \cup {i}]
       ELSE [L |-> IF Val(outcome) = "YES"
                   THEN resolve_win(S.L, trade.trade_id, t)
                   ELSE resolve_loss(S.L, trade.trade_id, t),
             pins |-> clear_reference_price(S.pins, trade.asset),
             resolved_ids |-> S.resolved_ids \cup {trade.condition_id},
             polled |-> S.polled \cup {i},
             sends |-> S.sends + 1,
             raised |-> send(delivery) = "raised"]

\* the for loop of _check_outcomes over the first n positions
RECURSIVE check_outcomes(_, _, _, _, _)
check_outcomes(n, outcomes, deliveries, pending, t) ==
    IF n = 0 THEN CycleStart
    ELSE check_outcome(check_outcomes(n - 1, outcomes, deliveries, pending, t),
                       n, outcomes[n], deliveries[n], pending, t)

OutcomeInit ==
    /\ LET L0 == [trades |-> <<>>, balance |-> StartingBalance, counter |-> 0]
           L1 == open_trade(L0, "m1", 97, SharesFor(TRADE_SIZE_USDC, 97),
                            TRADE_SIZE_USDC, 1000, 0)
           L2 == open_trade(L1, "m2", 97, SharesFor(TRADE_SIZE_USDC, 97),
                            TRADE_SIZE_USDC, 1000, 0)
       IN /\ trades = L2.trades
          /\ balance = L2.balance
          /\ counter = L2.counter
          /\ disk = Some(Document(L2))
    /\ pending_outcomes = {Market(m).condition_id : m \in Markets}
    /\ loops = AllRunning
    /\ loop_event = NoEvent
    /\ prices = [a \in Assets |-> Some(1000)]
    /\ price_at_buy = [a \in Assets |-> Some(1000)]
    /\ now = 115
    /\ resolution = [m \in Markets |-> "pending"]
    /\ api = NoCall
    /\ main = Idle
    /\ ordered = {Market(m).condition_id : m \in Markets}
    /\ probe = [fn |-> "check_outcomes", cycles |-> 0, polled |-> {}, sends |-> 0,
                deliveries |-> <<>>]

\* one cycle of outcome_checker_loop
CheckOutcomes ==
    /\ probe.fn = "check_outcomes"
    /\ probe.cycles < MaxCycles
    /\ main.pc = "idle"
    /\ loops["outcome"] = "running"
    /\ \E outcomes \in [1..Len(trades) -> {None} \cup {Some(o) : o \in OutcomeLabels}],
          deliveries \in [1..Len(trades) -> Deliveries] :
          /\ \A i \in 1..Len(trades) :
                outcomes[i] \in OutcomeReadings(trades[i].condition_id)
          /\ LET S == check_outcomes(Len(trades), outcomes, deliveries,
                                     pending_outcomes, now)
             IN /\ trades' = S.L.trades
                /\ balance' = S.L.balance
                /\ counter' = S.L.counter
                /\ disk' = IF S.resolved_ids = {} THEN disk ELSE Some(Document(S.L))
                /\ price_at_buy' = S.pins
                /\ pending_outcomes' = IF S.raised THEN pending_outcomes
                                       ELSE pending_outcomes \ S.resolved_ids
                /\ loop_event' = IF S.raised
                                 THEN [loop |-> "outcome", kind |-> "caught"]
                                 ELSE loop_event
                /\ loops' = IF ~S.raised \/ on_cycle_exception("outcome") = "running"
                            THEN loops
                            ELSE [k \in LoopNames |-> "stopped"]
                /\ probe' = [probe EXCEPT !.cycles = probe.cycles + 1,
                                          !.polled = S.polled,
                                          !.sends = S.sends,
                                          !.deliveries = deliveries]
    /\ UNCHANGED <<prices, now, resolution, api, main, ordered>>

OutcomeNext ==
    \/ Tick
    \/ \E m \in Markets, o \in OutcomeLabels : VenueResolve(m, o)
    \/ CheckOutcomes

OutcomeSpec == OutcomeInit /\ [][OutcomeNext]_vars

(***************************************************************************)
(* Shutdown.  handle_signal is a signal.signal handler: Python runs it in   *)
(* the main thread between two bytecodes of whatever that thread executes, *)
(* and its sys.exit(0) raises SystemExit there.  No loop catches it         *)
(* (except Exception does not), so it leaves the coroutine, ends            *)
(* asyncio.run, and the other tasks are cancelled in their sleep.  The      *)
(* scanner's entry is split here at the statements of _execute_buy, where   *)
(* the signal can land.                                                     *)
(***************************************************************************)
\* one scan cycle up to the return of buy_yes in _execute_buy (a cycle that
\* does not get to the order changes nothing)
BuyOrder(m) ==
    /\ main.pc = "idle"
    /\ loops["scan"] = "running"
    /\ seconds_to_close(m, now) > 0
    /\ ~is_expired(m, now)
    /\ ~already_traded(trades, Market(m).condition_id)
    /\ counter < MaxTrades
    /\ \E book1 \in Books, book2 \in Books, book3 \in Books,
          trend \in TrendReadings(prices, Market(m).asset), order_ok \in BOOLEAN :
          LET verdict == should_enter(
                  seconds_to_close(m, now), Market(m).market_type,
                  Market(m).direction,
                  already_traded(trades, Market(m).condition_id),
                  get_best_ask(book1), get_orderbook_depth(book2).spread,
                  trend, get_price(prices, Market(m).asset))
              ask == get_best_ask(book3)
              spot == get_price(prices, Market(m).asset)
          IN /\ verdict.enter
             /\ ask # None
             /\ Val(ask) >= BUY_THRESHOLD
             /\ ordered' = ordered \cup {Market(m).condition_id}
             /\ main' = IF order_ok
                        THEN [main EXCEPT
                                !.pc = "buy_ordered",
                                !.locals = <<[market |-> m, ask |-> Val(ask),
                                              binance_price |-> IF spot = None THEN 0
                                                                ELSE Val(spot)]>>]
                        ELSE main
    /\ UNCHANGED <<ledgerVars, strategyVars, feedVars, now, resolution, api, probe>>

\* _execute_buy: self.tm.open_trade(...)
BuyRecord ==
    /\ main.pc = "buy_ordered"
    /\ LET order == Val(main.locals)
       IN Commit(open_trade(Ledger, order.market, order.ask,
                            SharesFor(TRADE_SIZE_USDC, order.ask),
                            TRADE_SIZE_USDC, order.binance_price, now))
    /\ main' = [main EXCEPT !.pc = "buy_recorded"]
    /\ UNCHANGED <<strategyVars, feedVars, now, resolution, api, probe, ordered>>

\* _execute_buy: binance_monitor.set_reference_price(market.asset)
BuyPin ==
    /\ main.pc = "buy_recorded"
    /\ price_at_buy' = set_reference_price(prices, price_at_buy,
                                           Market(Val(main.locals).market).asset)
    /\ main' = [main EXCEPT !.pc = "buy_pinned"]
    /\ UNCHANGED <<ledgerVars, strategyVars, prices, now, resolution, api, probe, ordered>>

\* _execute_buy: self._pending_outcomes.add(market.condition_id), then the
\* notification; the cycle ends
BuyPending ==
    /\ main.pc = "buy_pinned"
    /\ pending_outcomes' = pending_outcomes
                           \cup {Market(Val(main.locals).market).condition_id}
    /\ main' = Idle
    /\ UNCHANGED <<ledgerVars, loops, loop_event, feedVars, now, resolution, api,
                   probe, ordered>>

\* SIGINT or SIGTERM: handle_signal raises SystemExit where the main thread is
Signal ==
    /\ main.pc # "exited"
    /\ main' = [main EXCEPT !.pc = "exited", !.at = main.pc]
    /\ loops' = [l \in LoopNames |-> "stopped"]
    /\ UNCHANGED <<ledgerVars, pending_outcomes, loop_event, feedVars, now,
                   resolution, api, probe, ordered>>

\* the three trading loops on one market, and the signal
ShutdownNext ==
    \/ Tick
    \/ \E a \in Assets, p \in SpotLevels : PriceTick(a, p)
    \/ \E o \in OutcomeLabels : VenueResolve("m1", o)
    \/ BuyOrder("m1")
    \/ BuyRecord
    \/ BuyPin
    \/ BuyPending
    \/ \E i \in 1..MaxTrades : MonitorTrade(i)
    \/ \E i \in 1..MaxTrades : OutcomeTrade(i)
    \/ Signal

ShutdownSpec == Init /\ [][ShutdownNext]_vars

(***************************************************************************)
(* Startup: __main__ runs preflight, then run builds the ledger and the    *)
(* strategy and starts the loop tasks.                                     *)
(***************************************************************************)
\* what preflight asks for: the credentials of config.validate, the test
\* message, the market catalog, the exchange client and the balance
PreflightChecks == {"config", "telegram", "catalog", "clob", "balance"}

\* preflight, given the collaborators that fail: None is sys.exit(1), otherwise
\* the balance it returns.  scan_markets answers [] when the catalog cannot be
\* fetched, get_usdc_balance answers 0.0 when the balance cannot.
preflight(failed) ==
    IF "config" \in failed THEN None
    ELSE IF "telegram" \in failed THEN None
    ELSE IF "clob" \in failed THEN None
    ELSE IF "balance" \in failed THEN Some(0)
    ELSE Some(StartingBalance)

\* the process at the first line of __main__: no ledger and no task yet, no
\* TRADES_FILE
StartupInit ==
    /\ trades = <<>>
    /\ balance = 0
    /\ counter = 0
    /\ disk = None
    /\ pending_outcomes = {}
    /\ loops = [l \in LoopNames |-> "unstarted"]
    /\ loop_event = NoEvent
    /\ prices = [a \in Assets |-> None]
    /\ price_at_buy = [a \in Assets |-> None]
    /\ now = 0
    /\ resolution = [m \in Markets |-> "pending"]
    /\ api = NoCall
    /\ probe = NoProbe
    /\ main = [Idle EXCEPT !.pc = "preflight"]
    /\ ordered = {}

\* __main__: preflight, then run up to the creation of the loop tasks
Startup(failed) ==
    /\ main.pc = "preflight"
    /\ IF preflight(failed) = None
       THEN /\ main' = [main EXCEPT !.pc = "exited", !.at = "preflight",
                                    !.failed = failed]
            /\ UNCHANGED <<ledgerVars, loops>>
       ELSE /\ Commit(set_balance(load(disk, Val(preflight(failed))),
                                  Val(preflight(failed))))
            /\ loops' = AllRunning
            /\ main' = [Idle EXCEPT !.failed = failed]
    /\ UNCHANGED <<pending_outcomes, loop_event, feedVars, now, resolution, api,
                   probe, ordered>>

\* startup, then the three trading loops on one market
StartupNext ==
    \/ \E failed \in SUBSET PreflightChecks : Startup(failed)
    \/ Tick
    \/ \E a \in Assets, p \in SpotLevels : PriceTick(a, p)
    \/ \E o \in OutcomeLabels : VenueResolve("m1", o)
    \/ ScanMarket("m1")
    \/ \E i \in 1..MaxTrades : MonitorTrade(i)
    \/ \E i \in 1..MaxTrades : OutcomeTrade(i)

StartupSpec == StartupInit /\ [][StartupNext]_vars

(***************************************************************************)
(* Stand-alone run of one scanner cycle over markets the evaluator has     *)
(* approved: Init draws the candidates in the order of _active_markets;    *)
(* ScanCandidate runs Strategy._execute_buy on the next one, with the book *)
(* the re-read returns and the fate of the order drawn at the call.        *)
(***************************************************************************)
CandidateLists == {<<"m1">>, <<"m2">>, <<"m1", "m2">>, <<"m2", "m1">>}

BuyInit ==
    /\ trades = <<>>
    /\ balance = StartingBalance
    /\ counter = 0
    /\ disk = Some(Document([trades |-> <<>>, balance |-> StartingBalance, counter |-> 0]))
    /\ pending_outcomes = {}
    /\ loops = AllRunning
    /\ loop_event = NoEvent
    /\ prices \in [Assets -> {Some(p) : p \in SpotLevels}]
    /\ price_at_buy = [a \in Assets |-> None]
    /\ now = 0
    /\ resolution = [m \in Markets |-> "pending"]
    /\ api = NoCall
    /\ main = Idle
    /\ ordered = {}
    /\ probe \in [fn : {"scan_cycle"},
                  queue : CandidateLists,
                  attempts : {<<>>}]

\* one iteration of the scanner's for loop whose verdict was positive
ScanCandidate ==
    /\ probe.fn = "scan_cycle"
    /\ probe.queue # <<>>
    /\ loops["scan"] = "running"
    /\ \E book \in Books, order_ok \in BOOLEAN :
          /\ execute_buy(Head(probe.queue), get_best_ask(book), order_ok)
          /\ probe' = [probe EXCEPT
                          !.queue = Tail(@),
                          !.attempts = Append(@, [m |-> Head(probe.queue),
                                                  ask |-> get_best_ask(book),
                                                  order_ok |-> order_ok])]
    /\ UNCHANGED <<loops, loop_event, now, resolution, api, main>>

BuySpec == BuyInit /\ [][ScanCandidate]_vars

(***************************************************************************)
(* Properties of the position ledger.                                      *)
(***************************************************************************)
\* a step in which a client called a ledger method
ClientCall(op) == api'.seq # api.seq /\ api'.op = op
Resolvers == {"resolve_win", "resolve_loss", "resolve_cutloss"}
IsOpenId(ts, id) == HasKey(ts, id) /\ Lookup(ts, id).status = "open"
Terminal == {"win", "loss", "cutloss"}

\* C1: open debits the balance by the committed size of the new position, and
\* the resolution of an OPEN position credits it by the realized payout:
\* shares * 1.0 for WIN, nothing for LOSS, shares * sellPrice for CUTLOSS.
C1_BalanceAccounting ==
    [][ /\ ClientCall("open_trade") =>
             /\ Len(trades') = Len(trades) + 1
             /\ trades'[Len(trades')].status = "open"
             /\ balance' = balance - trades'[Len(trades')].size_usdc
        /\ \A id \in TradeIds :
             (api'.seq # api.seq /\ api'.op \in Resolvers /\ api'.id = id
              /\ IsOpenId(trades, id)) =>
                LET old == Lookup(trades, id)
                    new == Lookup(trades', id)
                IN /\ api'.op = "resolve_win" =>
                        new.status = "win" /\ balance' = balance + old.shares * FullPrice
                   /\ api'.op = "resolve_loss" =>
                        new.status = "loss" /\ balance' = balance
                   /\ api'.op = "resolve_cutloss" =>
                        /\ new.status = "cutloss"
                        /\ balance' = balance + old.shares * Val(new.sell_price)
      ]_vars

\* a position opened at 0.97 and cut at 0.95: the balance is the starting
\* balance less the committed size plus shares * 0.95
C1_Witness ==
    /\ api.op = "resolve_cutloss" /\ ~api.raised
    /\ Len(trades) = 1
    /\ trades[1].status = "cutloss"
    /\ trades[1].sell_price = Some(95)
    /\ balance = StartingBalance - trades[1].size_usdc + trades[1].shares * 95

\* C2: a resolve call on an id that is absent or not OPEN raises and leaves the
\* balance and every position unchanged.
C2_ResolveNotOpenRejected ==
    [][ \A id \in TradeIds :
          (api'.seq # api.seq /\ api'.op \in Resolvers /\ api'.id = id
           /\ ~IsOpenId(trades, id)) =>
             /\ api'.raised
             /\ balance' = balance
             /\ trades' = trades
      ]_vars

\* C3: a position that is WIN, LOSS or CUTLOSS keeps every field in every later
\* state, and a status only ever changes from OPEN to a terminal one.
C3_TerminalAbsorbing ==
    [][ \A i \in 1..Len(trades) :
          /\ i <= Len(trades')
          /\ trades[i].status \in Terminal => trades'[i] = trades[i]
          /\ trades'[i].status # trades[i].status =>
                trades[i].status = "open" /\ trades'[i].status \in Terminal
      ]_vars

\* C4: sellPrice, pnl and resolvedAt are all set on a position that is not
\* OPEN and all unset on an OPEN one.
C4_TerminalFieldsTogether ==
    \A i \in 1..Len(trades) :
        IF trades[i].status = "open"
        THEN /\ trades[i].sell_price = None
             /\ trades[i].pnl_usdc = None
             /\ trades[i].resolved_at = None
        ELSE /\ trades[i].sell_price # None
             /\ trades[i].pnl_usdc # None
             /\ trades[i].resolved_at # None

\* an OPEN position next to a lost one, whose sell price is set to zero
C4_Witness ==
    /\ Len(trades) = 2
    /\ trades[1].status = "loss" /\ trades[1].sell_price = Some(0)
    /\ trades[2].status = "open"

\* C5 as claimed: no two positions of the ledger share a market id, whatever
\* sequence of open calls and scan cycles produced them.
C5_OneTradePerMarket ==
    \A i, j \in 1..Len(trades) :
        i # j => trades[i].condition_id # trades[j].condition_id

\* C5 as amended: a position added by the scanner loop (not by a client's open
\* call) is for a market that had no position of any status.
C5_ScanNeverReenters ==
    [][ (Len(trades') > Len(trades) /\ api'.seq = api.seq) =>
          /\ Len(trades') = Len(trades) + 1
          /\ \A i \in 1..Len(trades) :
                trades[i].condition_id # trades'[Len(trades')].condition_id
      ]_vars

\* the scanner has entered one market while the other one already holds a
\* position that is no longer OPEN
C5_Witness ==
    /\ Len(trades) = 2
    /\ trades[1].status = "loss"
    /\ trades[2].status = "open"
    /\ trades[2].condition_id # trades[1].condition_id
    /\ trades[2].condition_id \in pending_outcomes

\* the number n of the id f"T{n:04d}"
IdNumber(id) == CHOOSE n \in 0..(MaxTrades + 1) : FormatId(n) = id

TimeWindowOk(p) ==
    /\ p.seconds_left > 5
    /\ p.seconds_left <= (IF p.market_type = "5m" THEN 120 ELSE 300)
AskOk(p) == p.ask # None /\ Val(p.ask) >= 97 /\ Val(p.ask) < 100
SpreadOk(p) == p.spread = None \/ Val(p.spread) <= 5
TrendOk(p) ==
    \/ p.trend = None
    \/ p.direction = "UP" /\ Val(p.trend) >= -20
    \/ p.direction = "DOWN" /\ Val(p.trend) <= 20
SpotOk(p) == p.spot # None

\* C8: the evaluator enters exactly when all six checks pass.
C8_EnterIffAllSix ==
    (probe.fn = "should_enter" /\ probe.done) =>
        (probe.result.enter <=>
            /\ TimeWindowOk(probe)
            /\ ~probe.traded
            /\ AskOk(probe)
            /\ SpreadOk(probe)
            /\ TrendOk(probe)
            /\ SpotOk(probe))

\* an entry at the edge of every check: 6 s left, ask at the threshold,
\* spread of exactly 5 cents, trend of exactly -0.2 % on an UP market
C8_Witness ==
    /\ probe.fn = "should_enter" /\ probe.done
    /\ probe.result.enter
    /\ probe.seconds_left = 6
    /\ probe.ask = Some(97)
    /\ probe.spread = Some(5)
    /\ probe.direction = "UP" /\ probe.trend = Some(-20)

\* the move since the pinned price is adverse by at least the threshold
Adverse(p) ==
    /\ p.current # None /\ p.pinned # None
    /\ \/ p.direction = "UP"
          /\ (Val(p.current) - Val(p.pinned)) * 1000 <= -3 * Val(p.pinned)
       \/ p.direction = "DOWN"
          /\ (Val(p.current) - Val(p.pinned)) * 1000 >= 3 * Val(p.pinned)
FeedReasons == {Some("binance_drop"), Some("binance_rise")}

\* C9: the check fires on every adverse move of at least the threshold; it
\* gives a feed-side reason only on such a move (never on a favourable move,
\* never without a pinned or a current price); and when the market side is
\* silent it fires exactly on such a move.
C9_FeedSideDirectionAware ==
    (probe.fn = "check_cutloss" /\ probe.done) =>
        /\ Adverse(probe) => probe.result # None
        /\ probe.result \in FeedReasons => Adverse(probe)
        /\ probe.result = Some("binance_drop") => probe.direction = "UP"
        /\ probe.result = Some("binance_rise") => probe.direction = "DOWN"
        /\ probe.result # Some("pm_price") => (probe.result # None <=> Adverse(probe))

\* UP position, pinned at 1000, spot at 997: a drop of exactly 0.3 %
C9_Witness ==
    /\ probe.fn = "check_cutloss" /\ probe.done
    /\ probe.direction = "UP"
    /\ probe.pinned = Some(1000) /\ probe.current = Some(997)
    /\ probe.result = Some("binance_drop")

\* C10: the market-side check fires exactly when the best bid of the YES token
\* is below the floor price.
C10_MarketSideUsesBid ==
    (probe.fn = "check_cutloss" /\ probe.done) =>
        (probe.result = Some("pm_price") <=>
            (probe.book.bid # None /\ Val(probe.book.bid) < 80))

(***************************************************************************)
(* Properties of the loops.                                                *)
(***************************************************************************)
\* C11: while a position is OPEN, the reference spot price its feed-side check
\* reads is the spot price pinned at that position's entry: it is neither
\* overwritten nor cleared by the opening or the resolution of another position.
C11_PinHeldWhileOpen ==
    \A i \in 1..Len(trades) :
        trades[i].status = "open" =>
            price_at_buy[trades[i].asset] = Some(trades[i].binance_entry_price)

\* C12: an OPEN position whose close timestamp has passed and whose market the
\* venue has resolved YES or NO is eventually resolved by the outcome loop,
\* also when the ledger that holds it was loaded from the persisted document
\* by a restarted process.
C12_ReloadedPositionPolled ==
    \A i \in 1..MaxTrades :
        (/\ i <= Len(trades)
         /\ trades[i].status = "open"
         /\ now >= trades[i].close_timestamp
         /\ resolution[trades[i].condition_id] \in {"YES", "NO"})
        ~> (i <= Len(trades) /\ trades[i].status # "open")

\* C17: a position is turned into WIN only when the venue reports YES for its
\* market, into LOSS only when the venue reports NO, and neither before the
\* position's close timestamp.
C17_OutcomeMapping ==
    [][ \A i \in 1..Len(trades) :
          (trades[i].status = "open" /\ trades'[i].status \in {"win", "loss"}) =>
             /\ now >= trades[i].close_timestamp
             /\ trades'[i].status = "win" => resolution[trades[i].condition_id] = "YES"
             /\ trades'[i].status = "loss" => resolution[trades[i].condition_id] = "NO"
      ]_vars

\* what the first n positions have moved on the balance: each one its committed
\* size out, and a resolved one its payout in, once
RECURSIVE Settled(_, _)
Settled(ts, n) ==
    IF n = 0 THEN 0
    ELSE Settled(ts, n - 1) - ts[n].size_usdc
         + (IF ts[n].status = "open" THEN 0 ELSE ts[n].shares * Val(ts[n].sell_price))

C14_SavedBeforeReturn ==
    [][ (api'.seq # api.seq /\ ~api'.raised /\ api'.saved) =>
          /\ disk' # None
          /\ ~IsTorn(disk')
          /\ Val(disk').balance = JNumber(balance')
          /\ Val(disk').counter = JNumber(counter')
          /\ Len(Val(disk').trades) = Len(trades')
          /\ \A i \in 1..Len(trades') : Val(disk').trades[i] = asdict(trades'[i])
      ]_vars

\* a cut recorded and written after an earlier write had torn the file and a
\* restart had begun a new ledger from it
C14_Witness ==
    /\ api.op = "resolve_cutloss" /\ ~api.raised /\ api.saved
    /\ Len(trades) = 1
    /\ trades[1].status = "cutloss"
    /\ trades[1].trade_id = FormatId(1)
    /\ counter = 1
    /\ disk # None /\ ~IsTorn(disk)
    /\ Val(disk).counter = JNumber(1)
    /\ Val(disk).trades[1].status = JString("cutloss")

\* C15: a ledger built from the document the ledger wrote has the same
\* positions, field by field, under the same ids and in the same order, and
\* the same counter; with no document it is empty, with counter 0 and the
\* injected balance.
C15_RoundTrip ==
    /\ disk # None
    /\ load(disk, StartingBalance).trades = trades
    /\ load(disk, StartingBalance).counter = counter
    /\ \A b \in {0, StartingBalance} :
          load(None, b) = [trades |-> <<>>, balance |-> b, counter |-> 0]

\* a ledger that was reloaded with a cut position, its reason included, and a
\* won one, and whose balance was then set to the injected one
C15_Witness ==
    /\ Len(trades) = 2
    /\ trades[1].status = "cutloss"
    /\ trades[1].cutloss_reason = Some("client")
    /\ trades[2].status = "win"
    /\ trades[2].sell_price = Some(FullPrice)
    /\ counter = 2
    /\ balance = StartingBalance

(***************************************************************************)
(* Properties of the scheduling.                                           *)
(***************************************************************************)
\* C16: no loop ever stops: an exception raised inside a cycle of one loop
\* leaves that loop and the other three running, so that each goes on to its
\* sleep and its next cycle; the reporter, whose cycles are visible, sends a
\* report again after a cycle of its own has raised.
C16_LoopsNeverStop ==
    /\ [](\A l \in LoopNames : loops[l] = "running")
    /\ [][ (loop_event' # loop_event /\ loop_event'.kind = "caught") =>
             (loops' = loops /\ \A l \in LoopNames : loops'[l] = "running") ]_vars
    /\ (loop_event = [loop |-> "report", kind |-> "caught"])
          ~> (loop_event = [loop |-> "report", kind |-> "sent"])

\* the reporter's cycle has raised, and was caught, while a position is OPEN
\* and the other loops go on
C16_Witness ==
    /\ loop_event = [loop |-> "report", kind |-> "caught"]
    /\ \A l \in LoopNames : loops[l] = "running"
    /\ Len(trades) = 1 /\ trades[1].status = "open"

(***************************************************************************)
(* Properties of the recorded result.                                      *)
(***************************************************************************)
\* C18: resolve_win records sell price 1.0 and profit shares * (1 - buy price)
\* and credits the balance by shares; resolve_loss records sell price 0 and
\* profit -size and credits nothing; resolve_cutloss(s) records sell price s
\* and profit shares * s - size and credits shares * s.
C18_RecordedPnl ==
    [][ \A id \in TradeIds :
          (api'.seq # api.seq /\ api'.op \in Resolvers /\ api'.id = id /\ ~api'.raised) =>
             LET old == Lookup(trades, id)
                 new == Lookup(trades', id)
             IN /\ api'.op = "resolve_win" =>
                     /\ new.sell_price = Some(FullPrice)
                     /\ new.pnl_usdc = Some(old.shares * (FullPrice - old.buy_price))
                     /\ balance' = balance + old.shares * FullPrice
                     /\ balance' # balance + Val(new.pnl_usdc)
                /\ api'.op = "resolve_loss" =>
                     /\ new.sell_price = Some(0)
                     /\ new.pnl_usdc = Some(0 - old.size_usdc)
                     /\ balance' = balance
                /\ api'.op = "resolve_cutloss" =>
                     /\ new.sell_price \in {Some(p) : p \in ApiSellPrices}
                     /\ new.pnl_usdc = Some(old.shares * Val(new.sell_price) - old.size_usdc)
                     /\ balance' = balance + old.shares * Val(new.sell_price)
      ]_vars

\* 10.31 shares bought at 0.97 and won: a profit of 0.3093 USDC is recorded and
\* the balance is up by the 10.31 USDC of the payout
C18_Witness ==
    /\ api.op = "resolve_win" /\ ~api.raised
    /\ Len(trades) = 1
    /\ trades[1].status = "win"
    /\ trades[1].buy_price = 97 /\ trades[1].shares = 1031
    /\ trades[1].pnl_usdc = Some(3093)
    /\ balance = StartingBalance - TRADE_SIZE_USDC + 103100

(***************************************************************************)
(* Properties of the cut-loss exit.                                        *)
(***************************************************************************)
\* the price of the sell order: the best bid, or one cent when the book has
\* no bid or a bid below one cent
ExitOrderPrice(book) ==
    IF book.bid = None THEN 1
    ELSE IF Val(book.bid) < 1 THEN 1
    ELSE Val(book.bid)

\* C19 as claimed: the sell price recorded on a CUTLOSS position is the best
\* bid at the exit or 0.01, and never below 0.01.
C19_SellPriceAtLeastOneCent ==
    (probe.fn = "execute_cutloss" /\ probe.done) =>
        /\ trades[1].status = "cutloss"
        /\ trades[1].sell_price = Some(ExitOrderPrice(probe.book))
        /\ Val(trades[1].sell_price) >= 1

\* C19 as amended: the exit posts a fill-or-kill order at the best bid, or at
\* 0.01 without one; the position becomes CUTLOSS with that price when the
\* order call returns, and with sell price 0 and no credit when it raises.
C19_SellPriceOrZeroOnFailure ==
    (probe.fn = "execute_cutloss" /\ probe.done) =>
        /\ probe.order_type = "FOK"
        /\ trades[1].status = "cutloss"
        /\ probe.sell_ok =>
             /\ trades[1].sell_price = Some(ExitOrderPrice(probe.book))
             /\ Val(trades[1].sell_price) >= 1
             /\ balance = StartingBalance - trades[1].size_usdc
                          + trades[1].shares * ExitOrderPrice(probe.book)
        /\ ~probe.sell_ok =>
             /\ trades[1].sell_price = Some(0)
             /\ balance = StartingBalance - trades[1].size_usdc

\* an exit into a book whose best bid is below one cent: sold at 0.01
C19_Witness ==
    /\ probe.fn = "execute_cutloss" /\ probe.done
    /\ probe.book.bid = Some(0)
    /\ probe.sell_ok
    /\ trades[1].status = "cutloss"
    /\ trades[1].sell_price = Some(1)

\* C20: a position becomes CUTLOSS only in a step taken while the clock is
\* before its close timestamp plus 30 s; from then on an OPEN position is
\* changed by the outcome loop only, to WIN or LOSS.
C20_MonitorWindow ==
    [][ \A i \in 1..Len(trades) :
          /\ (trades[i].status = "open" /\ trades'[i].status = "cutloss") =>
                now < trades[i].close_timestamp + 30
          /\ (trades[i].status = "open" /\ now >= trades[i].close_timestamp + 30
              /\ trades'[i] # trades[i]) =>
                trades'[i].status \in {"win", "loss"}
      ]_vars

\* a position cut after its market closed but inside the 30 s of grace
C20_Witness ==
    /\ Len(trades) >= 1
    /\ trades[1].status = "cutloss"
    /\ trades[1].resolved_at # None
    /\ Val(trades[1].resolved_at) >= trades[1].close_timestamp
    /\ Val(trades[1].resolved_at) < trades[1].close_timestamp + 30
    /\ now = trades[1].close_timestamp + 30

(***************************************************************************)
(* Properties of the scheduler's bookkeeping.                              *)
(***************************************************************************)
\* C21: between two cycles, and right after a restart that loaded a persisted
\* ledger, the pending-outcome set holds the market id of every OPEN position
\* and the market id of no position that is WIN, LOSS or CUTLOSS.
C21_PendingDerivedFromLedger ==
    \A i \in 1..Len(trades) :
        /\ trades[i].status = "open" => trades[i].condition_id \in pending_outcomes
        /\ trades[i].status \in Terminal => trades[i].condition_id \notin pending_outcomes

(***************************************************************************)
(* Properties of the entry attempts.                                       *)
(***************************************************************************)
\* C30: the program submits at most one buy order per market, failed orders
\* and restarts included: the buy order with which the scanner opens a
\* position is the first buy order ever submitted for that position's market.
C30_OneBuyOrderPerMarket ==
    [][ (Len(trades') > Len(trades) /\ api'.seq = api.seq) =>
          trades'[Len(trades')].condition_id \notin ordered ]_vars

(***************************************************************************)
(* Properties of startup and shutdown.                                     *)
(***************************************************************************)
\* C22: when the process has exited on the shutdown signal, the cycle that
\* was in flight at the signal had run to its end (ledger mutation, write,
\* pin and pending set all done), and no step after the signal starts a new
\* cycle: nothing of the program's state changes any more.
C22_CooperativeShutdown ==
    /\ [](main.pc = "exited" => (main.at = "idle" /\ main.locals = <<>>))
    /\ [][ main.pc = "exited" =>
             UNCHANGED <<trades, balance, counter, disk, pending_outcomes,
                         price_at_buy, ordered>> ]_vars

\* C23: a loop task exists only after preflight has succeeded: with missing
\* credentials, a failed test message, a failed exchange-client
\* initialization, or a market catalog or a balance that cannot be fetched,
\* the process exits before any loop starts.
C23_PreflightGatesLoops ==
    (\E l \in LoopNames : loops[l] = "running") =>
        (main.pc # "preflight" /\ main.failed = {})

(***************************************************************************)
(* Properties of the entry evaluator's order of checks.                    *)
(***************************************************************************)
\* the first of the six checks, in the order time window, already traded, ask
\* price, spread, trend, spot price, that fails on the values read
FirstFailing(p) ==
    IF ~TimeWindowOk(p) THEN "time"
    ELSE IF p.traded THEN "traded"
    ELSE IF ~AskOk(p) THEN "ask"
    ELSE IF ~SpreadOk(p) THEN "spread"
    ELSE IF ~TrendOk(p) THEN "trend"
    ELSE IF ~SpotOk(p) THEN "spot"
    ELSE "none"

ReasonsOf(check) ==
    CASE check = "time" -> {"too_early", "too_late"}
      [] check = "traded" -> {"already_traded"}
      [] check = "ask" -> {"no_book", "price_low", "price_at_one"}
      [] check = "spread" -> {"spread_wide"}
      [] check = "trend" -> {"dropping", "rising"}
      [] check = "spot" -> {"no_spot"}
      [] OTHER -> {"entry_ok"}

\* the collaborator reads up to and including the one the check needs
ReadsUpTo(check) ==
    CASE check \in {"time", "traded"} -> <<>>
      [] check = "ask" -> <<"get_best_ask">>
      [] check = "spread" -> <<"get_best_ask", "get_orderbook_depth">>
      [] check = "trend" -> <<"get_best_ask", "get_orderbook_depth", "get_1min_trend">>
      [] OTHER -> <<"get_best_ask", "get_orderbook_depth", "get_1min_trend", "get_price">>

\* C24: the reason the evaluator returns is that of the first failing check
\* in the order time window, already traded, ask price, spread, trend, spot
\* price, and the evaluator has made the reads of the checks up to that one
\* and no read of a later check.
C24_FirstFailureDecides ==
    (probe.fn = "should_enter" /\ probe.done) =>
        /\ probe.result.reason \in ReasonsOf(FirstFailing(probe))
        /\ probe.reads = ReadsUpTo(FirstFailing(probe))

\* a market already traded whose ask is also too low and for which no spot
\* price exists: the verdict names the ledger check, and nothing was read
C24_Witness ==
    /\ probe.fn = "should_enter" /\ probe.done
    /\ TimeWindowOk(probe)
    /\ probe.traded
    /\ probe.ask = Some(96)
    /\ probe.spot = None
    /\ probe.result.reason = "already_traded"
    /\ probe.reads = <<>>

(***************************************************************************)
(* Properties of the outcome cycle.                                        *)
(***************************************************************************)
\* a step in which a cycle of the outcome loop has run
OutcomeCycle == probe'.cycles = probe.cycles + 1

\* the i-th position is one the cycle polls: OPEN, past its close timestamp,
\* and tracked by the pending-outcome set
Due(i) ==
    /\ trades[i].status = "open"
    /\ now >= trades[i].close_timestamp
    /\ trades[i].condition_id \in pending_outcomes

\* C25: an outcome cycle that finds the market of an OPEN position past its
\* close timestamp still pending polls it and changes nothing for it: the
\* position keeps every field, its market stays in the pending-outcome set
\* (so the next cycle polls it again), and, unless the cycle resolved another
\* position, the balance, the persisted document and the pinned prices are
\* unchanged.
C25_PendingIsNoOp ==
    [][ OutcomeCycle =>
          \A i \in 1..Len(trades) :
             (Due(i) /\ resolution[trades[i].condition_id] = "pending") =>
                /\ i \in probe'.polled
                /\ trades'[i] = trades[i]
                /\ trades[i].condition_id \in pending_outcomes'
                /\ (\A j \in 1..Len(trades) : trades'[j] = trades[j]) =>
                      /\ balance' = balance
                      /\ counter' = counter
                      /\ disk' = disk
                      /\ price_at_buy' = price_at_buy
                      /\ pending_outcomes' = pending_outcomes
      ]_vars

\* three cycles have run past the close of two positions whose markets are
\* still pending: both were polled by the last cycle, and nothing has moved
C25_Witness ==
    /\ probe.fn = "check_outcomes"
    /\ probe.cycles = MaxCycles
    /\ now >= 120
    /\ \A m \in Markets : resolution[m] = "pending"
    /\ probe.polled = {1, 2}
    /\ trades[1].status = "open" /\ trades[2].status = "open"
    /\ balance = StartingBalance - 2 * TRADE_SIZE_USDC
    /\ price_at_buy["BTC"] = Some(1000)
    /\ pending_outcomes = {"m1", "m2"}

\* C29: whatever the delivery of the notifications of an outcome cycle does,
\* the cycle raises nothing, every due position is polled, every position
\* the venue was read as resolved for is WIN or LOSS in memory and in the
\* persisted document and has left the pending-outcome set, and exactly one
\* delivery is attempted per resolved position.
C29_NotificationFailureHarmless ==
    [][ OutcomeCycle =>
          /\ loops' = loops
          /\ loop_event' = loop_event
          /\ \A i \in 1..Len(trades) : Due(i) => i \in probe'.polled
          /\ \A i \in 1..Len(trades) :
                trades'[i] # trades[i] =>
                   /\ trades[i].status = "open"
                   /\ trades'[i].status \in {"win", "loss"}
                   /\ Val(disk').trades[i] = asdict(trades'[i])
                   /\ trades[i].condition_id \notin pending_outcomes'
          /\ probe'.sends = Cardinality({i \in 1..Len(trades) : trades'[i] # trades[i]})
      ]_vars

\* the first position was won and its notification ended in an exception; the
\* second position, handled after it in the same cycle, is resolved as well
C29_Witness ==
    /\ probe.fn = "check_outcomes"
    /\ probe.cycles = 1
    /\ probe.deliveries = <<"exception", "refused">>
    /\ probe.sends = 2
    /\ trades[1].status = "win"
    /\ trades[2].status = "loss"
    /\ pending_outcomes = {}
    /\ \A l \in LoopNames : loops[l] = "running"

(***************************************************************************)
(* Properties of the read-only paths.                                      *)
(***************************************************************************)
\* C26: a cycle of the report loop leaves the balance, the counter, every
\* position, the persisted document, the pending-outcome set and the pinned
\* and current spot prices unchanged.
C26_ReportReadOnly ==
    [][ (loop_event' # loop_event /\ loop_event'.loop = "report") =>
          UNCHANGED <<trades, balance, counter, disk, pending_outcomes,
                      price_at_buy, prices>> ]_vars

\* a report was sent while the ledger holds a resolved position and the
\* balance its payout
C26_Witness ==
    /\ loop_event = [loop |-> "report", kind |-> "sent"]
    /\ Len(trades) = 1
    /\ trades[1].status = "win"
    /\ balance = StartingBalance - TRADE_SIZE_USDC + trades[1].shares * FullPrice
    /\ pending_outcomes = {}

\* C27: an evaluation of a candidate market, whatever its verdict, leaves the
\* balance, the counter, the positions, the persisted document, the
\* pending-outcome set and the pinned and current spot prices unchanged.
C27_EvaluatorWritesNothing ==
    [][ (probe.fn = "should_enter" /\ ~probe.done /\ probe'.done) =>
          UNCHANGED <<trades, balance, counter, disk, pending_outcomes,
                      price_at_buy, prices, ordered>> ]_vars

\* a positive verdict was returned and nothing was recorded: no position, no
\* debit, no pending market, no pinned price
C27_Witness ==
    /\ probe.fn = "should_enter" /\ probe.done
    /\ probe.result.enter
    /\ probe.reads = <<"get_best_ask", "get_orderbook_depth", "get_1min_trend", "get_price">>
    /\ trades = <<>>
    /\ balance = StartingBalance
    /\ counter = 0
    /\ pending_outcomes = {}
    /\ price_at_buy = [a \in Assets |-> None]

(***************************************************************************)
(* Properties of a failed write.                                           *)
(***************************************************************************)
\* what a call that returned has done to the ledger in memory
AppliedInMemory ==
    /\ api'.op = "open_trade" =>
          /\ Len(trades') = Len(trades) + 1
          /\ trades'[Len(trades')].status = "open"
          /\ counter' = counter + 1
          /\ balance' = balance - TRADE_SIZE_USDC
    /\ api'.op = "resolve_win" => Lookup(trades', api'.id).status = "win"
    /\ api'.op = "resolve_loss" => Lookup(trades', api'.id).status = "loss"
    /\ api'.op = "resolve_cutloss" => Lookup(trades', api'.id).status = "cutloss"
    /\ api'.op = "set_balance" => balance' = StartingBalance

\* C28: when the write of a mutating ledger call fails, the call returns
\* normally with its mutation applied in memory, and the persisted document
\* keeps the content it had before the call.
C28_FailedWriteKeepsDocument ==
    [][ (api'.seq # api.seq /\ ~api'.raised /\ ~api'.saved) =>
          /\ AppliedInMemory
          /\ disk' = disk ]_vars

(***************************************************************************)
(* Properties of the resolution of positions.                              *)
(***************************************************************************)
\* C31: every position of the ledger is again and again either resolved
\* (WIN, LOSS or CUTLOSS), or before its close timestamp, or on a market for
\* which the venue reports neither YES nor NO: a position stays OPEN for ever
\* only if the venue never resolves its market.
C31_EventuallyResolved ==
    \A i \in 1..MaxTrades :
        []((i <= Len(trades)) =>
              <>(/\ i <= Len(trades)
                 /\ \/ trades[i].status \in Terminal
                    \/ now < trades[i].close_timestamp
                    \/ resolution[trades[i].condition_id] \notin {"YES", "NO"}))

(***************************************************************************)
(* Properties of the entry and of the exits of positions.                  *)
(***************************************************************************)
\* C32: for every OPEN position inside its monitoring window, when the spot
\* price has moved against the position by at least the threshold since the
\* spot price recorded at the position's own entry, the check a monitor cycle
\* runs on it (with a silent market side) gives a cut-loss reason.
C32_FeedSideProtectsEveryPosition ==
    \A i \in 1..Len(trades) :
        (/\ trades[i].status = "open"
         /\ ~monitor_skips(trades[i].close_timestamp, now)
         /\ Adverse([direction |-> trades[i].direction,
                     current |-> prices[trades[i].asset],
                     pinned |-> Some(trades[i].binance_entry_price)]))
        => check_cutloss(trades[i].direction, None,
                         get_change_pct(prices[trades[i].asset],
                                        price_at_buy[trades[i].asset])) # None

\* C33: every position of the ledger was opened at a buy price p with
\* buy threshold <= p < 1.0.
C33_BuyPriceWithinBounds ==
    \A i \in 1..Len(trades) :
        /\ trades[i].buy_price >= BUY_THRESHOLD
        /\ trades[i].buy_price < FullPrice

\* an attempt of the scanner that creates no position: the re-read price is
\* absent or below the threshold, or the order call raised
FailedAttempt(a) == a.ask = None \/ Val(a.ask) < BUY_THRESHOLD \/ ~a.order_ok
SuccessfulAttempts(as) == {k \in 1..Len(as) : ~FailedAttempt(as[k])}

\* C34: an attempt whose re-read price is absent or below the threshold, or
\* whose order call raises, leaves positions, balance, counter, the document,
\* the pending-outcome set and the pinned prices unchanged, and the scanner
\* goes on to the next candidate of its cycle; the ledger holds exactly one
\* position per attempt that did not fail.
C34_FailedBuyChangesNothing ==
    /\ [](probe.fn = "scan_cycle" =>
             Len(trades) = Cardinality(SuccessfulAttempts(probe.attempts)))
    /\ [][ (probe.fn = "scan_cycle"
            /\ Len(probe'.attempts) = Len(probe.attempts) + 1
            /\ FailedAttempt(probe'.attempts[Len(probe'.attempts)])) =>
              /\ UNCHANGED <<trades, balance, counter, disk>>
              /\ UNCHANGED <<pending_outcomes, price_at_buy>>
              /\ loops'["scan"] = "running"
              /\ probe'.queue = Tail(probe.queue)
      ]_vars

\* the order for the first candidate raised, nothing was recorded for it, and
\* the second candidate was then bought as the first position of the ledger
C34_Witness ==
    /\ probe.fn = "scan_cycle"
    /\ Len(probe.attempts) = 2
    /\ probe.attempts[1].ask = Some(97) /\ ~probe.attempts[1].order_ok
    /\ ~FailedAttempt(probe.attempts[2])
    /\ Len(trades) = 1
    /\ trades[1].condition_id = Market(probe.attempts[2].m).condition_id
    /\ trades[1].trade_id = FormatId(1)
    /\ pending_outcomes = {trades[1].condition_id}
    /\ balance = StartingBalance - TRADE_SIZE_USDC

\* C35: once the exit of a position has run with a sell order that raised, the
\* position is CUTLOSS with sell price 0 and profit -size, in memory and in
\* the document, the balance has received no credit, the pin of its asset is
\* cleared and its market is not pending; and this stays so through every
\* later cycle of the monitor and outcome loops, whatever the venue reports.
C35_FailedSellStillCloses ==
    (probe.fn = "execute_cutloss" /\ probe.done /\ ~probe.sell_ok) =>
        /\ Len(trades) = 1
        /\ trades[1].status = "cutloss"
        /\ trades[1].sell_price = Some(0)
        /\ trades[1].pnl_usdc = Some(0 - trades[1].size_usdc)
        /\ trades[1].cutloss_reason = Some("pm_price")
        /\ balance = StartingBalance - trades[1].size_usdc
        /\ price_at_buy[trades[1].asset] = None
        /\ trades[1].condition_id \notin pending_outcomes
        /\ get_open_trades(trades) = {}
        /\ disk = Some(Document(Ledger))

\* the sell into a book with a bid of 0.95 raised; the market has since closed
\* and the venue reports YES for it, and the position is still the CUTLOSS of
\* the failed exit
C35_Witness ==
    /\ probe.fn = "execute_cutloss" /\ probe.done /\ ~probe.sell_ok
    /\ probe.book.bid = Some(95)
    /\ trades[1].status = "cutloss"
    /\ trades[1].sell_price = Some(0)
    /\ now >= trades[1].close_timestamp + MonitorGrace
    /\ resolution[trades[1].condition_id] = "YES"
    /\ balance = StartingBalance - TRADE_SIZE_USDC

(***************************************************************************)
(* Properties of the balance.                                              *)
(***************************************************************************)
\* C36: the balance of the ledger is never negative.
C36_BalanceNeverNegative == balance >= 0

\* the committed sizes of the OPEN positions among the first n
RECURSIVE OpenSizes(_, _)
OpenSizes(ts, n) ==
    IF n = 0 THEN 0
    ELSE OpenSizes(ts, n - 1) + (IF ts[n].status = "open" THEN ts[n].size_usdc ELSE 0)

\* C37: the total profit that get_stats reports equals the balance, less the
\* balance the ledger started with, plus the committed sizes of the OPEN
\* positions.
C37_PnlAgreesWithBalance ==
    get_stats(Ledger).total_pnl =
        balance - StartingBalance + OpenSizes(trades, Len(trades))

\* C38: when the process is restarted on an existing, readable document, the
\* balance of the ledger once startup is complete is the balance stored in
\* that document.
C38_RestartPreservesBalance ==
    [][ (Restart(StartingBalance) /\ disk # None /\ ~IsTorn(disk)) =>
           balance' = Val(disk).balance.value ]_vars
====
